---- MODULE Spec2Model ----
(***************************************************************************)
(* Model of the registry push/pull handlers of pulp_container              *)
(* (pulp_container/app/viewsets.py): the blob-upload state machine          *)
(* (BlobUploads.create / partial_update / put), the manifest put            *)
(* (Manifests.put / receive_artifact) and the pull lookup (get_drv_pull).   *)
(*                                                                         *)
(* Byte payloads are sequences over Byte.  A digest string is the record   *)
(* [prefix, hex]: seven characters followed by the hex digest, so that      *)
(* digest[len("sha256:"):] is the field hex.  SHA-256 is collision free on  *)
(* the payloads of the model (Sha256Update is an injective fold).           *)
(***************************************************************************)
EXTENDS Integers, Sequences, FiniteSets, TLC

\* ------------------------------------------------------------------ bounds
MaxChunkLen == 2
MaxUploadLen == 2
MaxRequests == 2

\* blob payload bytes, and the tokens a manifest document is made of
Byte == {0, 1}
Token == {2, 3, 4}
HashBase == Cardinality(Byte \cup Token) + 1
Paths == {"p1"}
Procs == {1, 2}
UploadPks == {1, 2, 3}
Prefixes == {"sha256:", "sha512:"}
ContentTypes == {"application/vnd.docker.distribution.manifest.v2+json"}

RECURSIVE SeqsUpTo(_)
SeqsUpTo(n) ==
    IF n = 0 THEN {<<>>}
    ELSE LET shorter == SeqsUpTo(n - 1)
         IN  shorter \cup {Append(s, b) : s \in {t \in shorter : Len(t) = n - 1}, b \in Byte}

Chunks == SeqsUpTo(MaxChunkLen)
Payloads == SeqsUpTo(MaxUploadLen)

\* ------------------------------------------------------------------ digests
\* hashlib: hasher.update(subchunk) consumes a stream incrementally.
RECURSIVE Sha256Update(_, _)
Sha256Update(state, bytes) ==
    IF bytes = <<>> THEN state
    ELSE Sha256Update(state * HashBase + Head(bytes) + 1, Tail(bytes))

Sha256Init == 0
Sha256(bytes) == Sha256Update(Sha256Init, bytes)

\* the digest string "sha256:<hex>"
DigestString(prefix, hex) == [prefix |-> prefix, hex |-> hex]
Sha256Digest(hex) == DigestString("sha256:", hex)
\* digest[len("sha256:") :]
StripPrefix(digest) == digest.hex
\* a reference that is a tag name: its first seven characters are not "sha256:"
TagNames == {DigestString("latest", 0), DigestString("stable", 0)}

\* ------------------------------------------------------------------ state
VARIABLES
    distributions,     \* ContainerDistribution rows: base_path -> [present, repository, repository_version]
    versions,          \* repository name -> sequence of published content sets (version 0 first)
    uploads,           \* Upload rows: pk -> [repository, offset, bytes, sha256]
    nUploads,          \* number of Upload rows ever created (pk allocation)
    artifacts,         \* Artifact rows
    blobs,             \* Blob rows
    manifests,         \* Manifest rows
    tags,              \* Tag rows
    contentArtifacts,  \* ContentArtifact rows
    blobManifests,     \* BlobManifest rows
    pc,                \* per request handler: position in the handler
    req,               \* per request handler: the request being served
    loc,               \* per request handler: local variables
    created,           \* per request handler: rows and versions the request has created so far
    started,           \* number of multi-step requests started so far
    client,            \* per Upload ever created: what its client has sent (history)
    last               \* the response of the most recent completed request, with what it was called on

db == <<distributions, versions, uploads, nUploads, artifacts, blobs, manifests, tags,
        contentArtifacts, blobManifests>>
procVars == <<pc, req, loc, created, started>>
vars == <<distributions, versions, uploads, nUploads, artifacts, blobs, manifests, tags,
          contentArtifacts, blobManifests, pc, req, loc, created, started, client, last>>

NoUpload == [repository |-> "none", offset |-> 0, bytes |-> <<>>, sha256 |-> 0]
NoDigest == DigestString("", 0)
\* op: the handler; pk: the Upload named; found: the Upload (or served version) exists;
\* aligned: the declared start offset was the Upload's offset; ref: the reference pulled;
\* manifest: the Manifest a pull resolved to; whole: the append was a whole-body append;
\* body: the bytes of a whole-body append at the Upload's offset; digest: the Docker-Content-Digest header of the response;
\* path: the path of a pull, an upload start or an append; mode: how an append declared
\* its range
NoLast == [op |-> "none", path |-> "none", mode |-> "none", pk |-> 0, found |-> FALSE, aligned |-> FALSE,
           ref |-> NoDigest,
           manifest |-> 0, whole |-> FALSE, body |-> <<>>, digest |-> NoDigest,
           result |-> "none"]
\* history of an Upload: the chunks whose declared start offset was the Upload's offset
\* (their concatenation and their number), whether each of those appends was accepted,
\* and whether any other append changed the Upload
NoClient == [sent |-> <<>>, n |-> 0, ok |-> TRUE, other |-> FALSE]

\* ------------------------------------------------------------------ repositories
\* A ContainerDistribution row has a repository, or a repository_version, or neither.
\* A base_path without a row is NoDistribution.
NoVersion == [repository |-> "none", number |-> 0]
NoDistribution == [present |-> FALSE, repository |-> "none", repository_version |-> NoVersion]
Distribution(repository) ==
    [present |-> TRUE, repository |-> repository, repository_version |-> NoVersion]
VersionDistribution(repository, number) ==
    [present |-> TRUE, repository |-> "none",
     repository_version |-> [repository |-> repository, number |-> number]]

\* the repositories that are not push repositories (ContainerRepository, filled by sync)
SyncRepositories == {"mirror"}
\* repository.cast().PUSH_ENABLED, line 627
PushEnabled(repository) == repository \notin SyncRepositories

\* a get_dr_push that does not look at PUSH_ENABLED
GetDrPushAnyRepository(path, create) ==
    LET distribution == distributions[path]
    IN  IF ~distribution.present
        THEN IF create THEN [status |-> "created", repository |-> path]
             ELSE [status |-> "Http404", repository |-> "none"]
        ELSE IF distribution.repository = "none"
        THEN [status |-> "Http404", repository |-> "none"]
        ELSE [status |-> "ok", repository |-> distribution.repository]

\* ContainerRegistryApiMixin.get_dr_push: the repository a push path resolves to.
GetDrPush(path, create) ==
    LET distribution == distributions[path]
    IN  IF ~distribution.present
        THEN IF create THEN [status |-> "created", repository |-> path]
             ELSE [status |-> "Http404", repository |-> "none"]
        ELSE IF distribution.repository = "none"
        THEN [status |-> "Http404", repository |-> "none"]
        ELSE IF ~PushEnabled(distribution.repository)
        THEN [status |-> "MethodNotAllowed", repository |-> "none"]
        ELSE [status |-> "ok", repository |-> distribution.repository]

\* A published version: its content set, and as history the number of the version it
\* was computed from and the push that published it.
VersionZero == [content |-> {}, base |-> -1, op |-> "create", manifest |-> 0,
                name |-> NoDigest]

\* Repository.latest_version(): the content of the latest published version.
LatestVersion(repository) == versions[repository][Len(versions[repository])].content
\* the number of the latest published version (version 0 is published with the repository)
LatestNumber(repository) == Len(versions[repository]) - 1

\* ------------------------------------------------------------------ uploads
\* models.Upload.append_chunk: append the bytes, advance the running digest and the offset.
AppendChunk(upload, chunk, chunk_size) ==
    [upload EXCEPT !.bytes = upload.bytes \o chunk,
                   !.sha256 = Sha256Update(upload.sha256, chunk),
                   !.offset = upload.offset + Len(chunk)]

\* an Upload lookup that does not filter by repository
GetUploadAnyRepository(repository, pk) == pk \in DOMAIN uploads

\* get_object_or_404(models.Upload, repository=repository, pk=pk), line 778, and
\* models.Upload.objects.get(pk=pk, repository=repository), line 793
GetUpload(repository, pk) ==
    /\ pk \in DOMAIN uploads
    /\ uploads[pk].repository = repository

\* BlobUploads.create
Create(path) ==
    /\ nUploads + 1 \in UploadPks
    /\ LET dr == GetDrPush(path, TRUE)
           pk == nUploads + 1
       IN  IF dr.status \notin {"ok", "created"}
           THEN /\ last' = [NoLast EXCEPT !.op = "create", !.path = path,
                                          !.result = dr.status]
                /\ UNCHANGED <<distributions, versions, uploads, nUploads, client>>
           ELSE /\ distributions' = IF dr.status = "created"
                                    THEN [distributions EXCEPT
                                            ![path] = Distribution(dr.repository)]
                                    ELSE distributions
                /\ versions' = IF dr.status = "created"
                               THEN [versions EXCEPT ![dr.repository] = <<VersionZero>>]
                               ELSE versions
                /\ uploads' = [u \in DOMAIN uploads \cup {pk} |->
                                 IF u = pk
                                 THEN [repository |-> dr.repository, offset |-> 0,
                                       bytes |-> <<>>, sha256 |-> Sha256Init]
                                 ELSE uploads[u]]
                /\ nUploads' = pk
                /\ client' = [u \in DOMAIN client \cup {pk} |->
                                IF u = pk THEN NoClient ELSE client[u]]
                /\ last' = [NoLast EXCEPT !.op = "create", !.path = path, !.pk = pk,
                                          !.found = TRUE,
                                          !.result = "202"]
    /\ UNCHANGED <<artifacts, blobs, manifests, tags, contentArtifacts, blobManifests>>
    /\ UNCHANGED procVars

\* a range in which a header that does not parse leaves chunk_size unassigned
DeclaredRangeUnparsed(mode, start, end, chunk) ==
    IF mode = "range"
    THEN [start |-> start, end |-> end, bound |-> TRUE, chunk_size |-> end - start + 1]
    ELSE [start |-> 0, end |-> Len(chunk) - 1, bound |-> FALSE, chunk_size |-> 0]

\* BlobUploads.partial_update, lines 758-776: the declared range of the chunk.
\* mode "whole": a digest query parameter and no Content-Range header;
\* mode "range": a Content-Range header "start-end"; mode "norange": neither parses.
DeclaredRange(mode, start, end, chunk) ==
    IF mode = "whole"
    THEN [start |-> 0, end |-> Len(chunk) - 1, bound |-> FALSE, chunk_size |-> 0]
    ELSE IF mode = "range"
    THEN [start |-> start, end |-> end, bound |-> TRUE, chunk_size |-> end - start + 1]
    ELSE [start |-> 0, end |-> 0, bound |-> TRUE, chunk_size |-> 0]

\* partial_update without the offset check of line 780
PartialUpdateResultNoCheck(upload, range, chunk) ==
    IF ~range.bound
    THEN [result |-> "UnboundLocalError", upload |-> upload]
    ELSE [result |-> "202", upload |-> AppendChunk(upload, chunk, range.chunk_size)]

\* partial_update without the append of line 782
PartialUpdateResultNoAppend(upload, range, chunk) ==
    IF upload.offset # range.start
    THEN [result |-> "OffsetMismatch", upload |-> upload]
    ELSE IF ~range.bound
    THEN [result |-> "UnboundLocalError", upload |-> upload]
    ELSE [result |-> "202", upload |-> upload]

\* BlobUploads.partial_update, lines 778-786: the response and the Upload as saved.
PartialUpdateResult(upload, range, chunk) ==
    IF upload.offset # range.start
    THEN [result |-> "OffsetMismatch", upload |-> upload]
    ELSE IF ~range.bound
    THEN [result |-> "UnboundLocalError", upload |-> upload]
    ELSE [result |-> "202", upload |-> AppendChunk(upload, chunk, range.chunk_size)]

PartialUpdate(path, pk, mode, start, end, chunk) ==
    LET dr == GetDrPush(path, FALSE)
        found == dr.status = "ok" /\ GetUpload(dr.repository, pk)
        range == DeclaredRange(mode, start, end, chunk)
        before == IF found THEN uploads[pk] ELSE NoUpload
        out == IF found THEN PartialUpdateResult(before, range, chunk)
               ELSE IF dr.status # "ok" THEN [result |-> dr.status, upload |-> before]
               ELSE [result |-> "Http404", upload |-> before]
    IN  /\ found => Len(out.upload.bytes) <= MaxUploadLen
        /\ uploads' = IF found THEN [uploads EXCEPT ![pk] = out.upload] ELSE uploads
        /\ client' =
             IF ~found THEN client
             ELSE IF mode = "range" /\ start = before.offset
             THEN [client EXCEPT ![pk].sent = @ \o chunk,
                                 ![pk].n = @ + 1,
                                 ![pk].ok = @ /\ out.result = "202"]
             ELSE [client EXCEPT ![pk].other = @ \/ out.upload # before]
        /\ last' = [NoLast EXCEPT !.op = "partial_update", !.path = path, !.mode = mode,
                                  !.pk = pk,
                                  !.found = found,
                                  !.aligned = found /\ range.start = before.offset,
                                  !.whole = (mode = "whole"),
                                  !.body = IF mode = "whole" /\ found
                                              /\ range.start = before.offset
                                           THEN chunk ELSE <<>>,
                                  !.result = out.result]
        /\ UNCHANGED <<distributions, versions, nUploads, artifacts, blobs, manifests, tags,
                       contentArtifacts, blobManifests>>
        /\ UNCHANGED procVars

\* ------------------------------------------------------------------ content store
NextArtifactPk == Cardinality(artifacts) + 1
NextContentPk == Cardinality(blobs) + Cardinality(manifests) + Cardinality(tags) + 1

\* an Artifact save that replaces the row of the same sha256
SaveOrGetArtifactClobber(rows, new) ==
    IF \E a \in rows : a.sha256 = new.sha256
    THEN LET old == CHOOSE a \in rows : a.sha256 = new.sha256
             row == [new EXCEPT !.pk = old.pk]
         IN  [rows |-> (rows \ {old}) \cup {row}, row |-> row, isNew |-> FALSE]
    ELSE [rows |-> rows \cup {new}, row |-> new, isNew |-> TRUE]

\* a Blob save without the unique constraint on digest
SaveOrGetBlobDuplicate(rows, new) ==
    [rows |-> rows \cup {new}, row |-> new, isNew |-> TRUE]

\* try: artifact.save()  except IntegrityError: Artifact.objects.get(sha256=...)
\* (Artifact.sha256 is unique).  The rows afterwards, and the row the handler holds.
SaveOrGetArtifact(rows, new) ==
    IF \E a \in rows : a.sha256 = new.sha256
    THEN [rows |-> rows, row |-> CHOOSE a \in rows : a.sha256 = new.sha256, isNew |-> FALSE]
    ELSE [rows |-> rows \cup {new}, row |-> new, isNew |-> TRUE]

\* try: blob.save()  except IntegrityError: Blob.objects.get(digest=digest)
SaveOrGetBlob(rows, new) ==
    IF \E b \in rows : b.digest = new.digest
    THEN [rows |-> rows, row |-> CHOOSE b \in rows : b.digest = new.digest, isNew |-> FALSE]
    ELSE [rows |-> rows \cup {new}, row |-> new, isNew |-> TRUE]

\* a Manifest save that rewrites the row of the same digest
SaveOrGetManifestRewrite(rows, new) ==
    IF \E m \in rows : m.digest = new.digest
    THEN LET old == CHOOSE m \in rows : m.digest = new.digest
             row == [new EXCEPT !.pk = old.pk]
         IN  [rows |-> (rows \ {old}) \cup {row}, row |-> row, isNew |-> FALSE]
    ELSE [rows |-> rows \cup {new}, row |-> new, isNew |-> TRUE]

\* try: manifest.save()  except IntegrityError: Manifest.objects.get(digest=...)
SaveOrGetManifest(rows, new) ==
    IF \E m \in rows : m.digest = new.digest
    THEN [rows |-> rows, row |-> CHOOSE m \in rows : m.digest = new.digest, isNew |-> FALSE]
    ELSE [rows |-> rows \cup {new}, row |-> new, isNew |-> TRUE]

\* try: ContentArtifact(...).save()  except IntegrityError: pass
\* (unique on content and relative_path)
SaveContentArtifact(rows, new) ==
    IF \E ca \in rows : ca.content = new.content /\ ca.relative_path = new.relative_path
    THEN rows
    ELSE rows \cup {new}

\* try: tag.save()  except IntegrityError: pass   (unique on name and tagged_manifest)
SaveTag(rows, new) ==
    IF \E t \in rows : t.name = new.name /\ t.tagged_manifest = new.tagged_manifest
    THEN rows
    ELSE rows \cup {new}

\* ------------------------------------------------------------------ repository versions
\* repository.new_version(): the mutation scope starts from the latest published content.
NewVersion(repository) == LatestVersion(repository)
\* new_version.add_content(queryset) / remove_content(queryset)
AddContent(work, pks) == work \cup pks
RemoveContent(work, pks) == work \ pks
\* leaving the scope without an exception publishes the next version.
Publish(repository, work, by) ==
    [versions EXCEPT ![repository] =
        Append(versions[repository], [by EXCEPT !.content = work])]

\* ------------------------------------------------------------------ request handlers
NoReq == [op |-> "none", path |-> "none", pk |-> 0, digest |-> NoDigest, ref |-> NoDigest,
          body |-> <<>>, content_type |-> "none", units |-> <<>>]
NoLoc == [repository |-> "none", upload |-> NoUpload, artifact |-> 0, blob |-> 0,
          config_blob |-> 0, manifest |-> 0, base |-> {}, work |-> {}, baseNumber |-> 0,
          steps |-> {}, sent |-> <<>>, clean |-> FALSE, units |-> <<>>, tasks |-> <<>>,
          number |-> 0, result |-> "none"]

Idle(p) == pc[p] \in {"idle", "done"}

Finish(p, result) ==
    /\ pc' = [pc EXCEPT ![p] = "done"]
    /\ loc' = [loc EXCEPT ![p].result = result, ![p].base = {}, ![p].work = {},
                          ![p].steps = {}]

Goto(p, label) == pc' = [pc EXCEPT ![p] = label]

Made(p, table, pk) == created' = [created EXCEPT ![p] = @ \cup {[table |-> table, pk |-> pk]}]

\* the digests a client asserts: of the bytes some Upload holds or of another payload,
\* under either prefix
AssertedDigests ==
    {DigestString(prefix, Sha256(b)) :
        prefix \in Prefixes, b \in {uploads[u].bytes : u \in DOMAIN uploads} \cup {<<0>>}}

\* BlobUploads.put, line 795: the asserted digest against the Upload's running digest.
DigestMatches(upload, digest) == upload.sha256 = StripPrefix(digest)

\* BlobUploads.put, lines 790-795 and 828-829
BlobPutStart(p, path, pk, digest) ==
    /\ Idle(p)
    /\ started < MaxRequests
    /\ started' = started + 1
    /\ req' = [req EXCEPT ![p] = [NoReq EXCEPT !.op = "blob_put", !.path = path, !.pk = pk,
                                               !.digest = digest]]
    /\ created' = [created EXCEPT ![p] = {}]
    /\ LET dr == GetDrPush(path, FALSE)
           found == dr.status = "ok" /\ GetUpload(dr.repository, pk)
       IN  /\ last' = [NoLast EXCEPT !.op = "blob_put", !.pk = pk, !.found = found]
           /\ IF dr.status # "ok"
              THEN /\ pc' = [pc EXCEPT ![p] = "done"]
                   /\ loc' = [loc EXCEPT ![p] = [NoLoc EXCEPT !.result = dr.status]]
              ELSE IF ~found
              THEN /\ pc' = [pc EXCEPT ![p] = "done"]
                   /\ loc' = [loc EXCEPT ![p] = [NoLoc EXCEPT !.result = "DoesNotExist"]]
              ELSE IF ~DigestMatches(uploads[pk], digest)
              THEN /\ pc' = [pc EXCEPT ![p] = "done"]
                   /\ loc' = [loc EXCEPT ![p] =
                                [NoLoc EXCEPT !.repository = dr.repository,
                                              !.upload = uploads[pk],
                                              !.sent = client[pk].sent,
                                              !.clean = ~client[pk].other,
                                              !.result = "DigestMismatch"]]
              ELSE /\ pc' = [pc EXCEPT ![p] = "bp_artifact"]
                   /\ loc' = [loc EXCEPT ![p] =
                                [NoLoc EXCEPT !.repository = dr.repository,
                                              !.upload = uploads[pk],
                                              !.sent = client[pk].sent,
                                              !.clean = ~client[pk].other]]
    /\ UNCHANGED <<db, client>>

\* BlobUploads.put, lines 796-808
BlobPutArtifact(p) ==
    /\ pc[p] = "bp_artifact"
    /\ LET upload == loc[p].upload
           new == [pk |-> NextArtifactPk, sha256 |-> upload.sha256,
                   size |-> Len(upload.bytes),
                   file |-> [dir |-> "upload", id |-> req[p].pk],
                   bytes |-> upload.bytes]
           saved == SaveOrGetArtifact(artifacts, new)
       IN  /\ artifacts' = saved.rows
           /\ loc' = [loc EXCEPT ![p].artifact = saved.row.pk]
           /\ IF saved.isNew THEN Made(p, "artifact", saved.row.pk) ELSE UNCHANGED created
    /\ Goto(p, "bp_blob")
    /\ last' = [NoLast EXCEPT !.op = "step"]
    /\ UNCHANGED <<distributions, versions, uploads, nUploads, blobs, manifests, tags,
                   contentArtifacts, blobManifests, req, started, client>>

\* BlobUploads.put, lines 809-813
BlobPutBlob(p) ==
    /\ pc[p] = "bp_blob"
    /\ LET new == [pk |-> NextContentPk, digest |-> req[p].digest,
                   media_type |-> "REGULAR_BLOB"]
           saved == SaveOrGetBlob(blobs, new)
       IN  /\ blobs' = saved.rows
           /\ loc' = [loc EXCEPT ![p].blob = saved.row.pk]
           /\ IF saved.isNew THEN Made(p, "blob", saved.row.pk) ELSE UNCHANGED created
    /\ Goto(p, "bp_ca")
    /\ last' = [NoLast EXCEPT !.op = "step"]
    /\ UNCHANGED <<distributions, versions, uploads, nUploads, artifacts, manifests, tags,
                   contentArtifacts, blobManifests, req, started, client>>

\* BlobUploads.put, lines 814-820
BlobPutContentArtifact(p) ==
    /\ pc[p] = "bp_ca"
    /\ LET new == [artifact |-> loc[p].artifact, content |-> loc[p].blob,
                   relative_path |-> req[p].digest]
       IN  /\ contentArtifacts' = SaveContentArtifact(contentArtifacts, new)
           /\ IF contentArtifacts' # contentArtifacts
              THEN Made(p, "content_artifact", loc[p].blob)
              ELSE UNCHANGED created
    /\ Goto(p, "bp_enter")
    /\ last' = [NoLast EXCEPT !.op = "step"]
    /\ UNCHANGED <<distributions, versions, uploads, nUploads, artifacts, blobs, manifests,
                   tags, blobManifests, req, loc, started, client>>

\* BlobUploads.put, line 822: with repository.new_version() as new_version
BlobPutEnter(p) ==
    /\ pc[p] = "bp_enter"
    /\ loc' = [loc EXCEPT ![p].base = NewVersion(loc[p].repository),
                          ![p].work = NewVersion(loc[p].repository),
                          ![p].baseNumber = LatestNumber(loc[p].repository)]
    /\ Goto(p, "bp_add")
    /\ last' = [NoLast EXCEPT !.op = "step"]
    /\ UNCHANGED <<db, req, created, started, client>>

\* BlobUploads.put, line 823 and the end of the scope
BlobPutAdd(p) ==
    /\ pc[p] = "bp_add"
    /\ LET work == AddContent(loc[p].work, {b.pk : b \in {x \in blobs : x.pk = loc[p].blob}})
       IN  /\ versions' = Publish(loc[p].repository, work,
                                    [VersionZero EXCEPT !.base = loc[p].baseNumber,
                                                        !.op = "blob_put"])
           /\ loc' = [loc EXCEPT ![p].work = work,
                                 ![p].number = Len(versions[loc[p].repository])]
    /\ Made(p, "version", Len(versions[loc[p].repository]))
    /\ Goto(p, "bp_delete")
    /\ last' = [NoLast EXCEPT !.op = "step"]
    /\ UNCHANGED <<distributions, uploads, nUploads, artifacts, blobs, manifests, tags,
                   contentArtifacts, blobManifests, req, started, client>>

\* a finalize that returns without deleting the Upload
BlobPutDeleteKeep(p) ==
    /\ pc[p] = "bp_delete"
    /\ Finish(p, "201")
    /\ last' = [NoLast EXCEPT !.op = "step"]
    /\ UNCHANGED <<db, req, created, started, client>>

\* BlobUploads.put, lines 825-827
BlobPutDelete(p) ==
    /\ pc[p] = "bp_delete"
    /\ uploads' = [u \in DOMAIN uploads \ {req[p].pk} |-> uploads[u]]
    /\ Finish(p, "201")
    /\ last' = [NoLast EXCEPT !.op = "step"]
    /\ UNCHANGED <<distributions, versions, nUploads, artifacts, blobs, manifests, tags,
                   contentArtifacts, blobManifests, req, created, started, client>>

\* ------------------------------------------------------------------ upload start
\* BlobUploads.create statement by statement, for requests that interleave.
\* get_dr_push, lines 599-602 and 623-633: the distribution of the path is looked up
CreateStart(p, path) ==
    /\ Idle(p)
    /\ started < MaxRequests
    /\ started' = started + 1
    /\ req' = [req EXCEPT ![p] = [NoReq EXCEPT !.op = "create", !.path = path]]
    /\ created' = [created EXCEPT ![p] = {}]
    /\ LET dr == GetDrPush(path, TRUE)
       IN  IF dr.status = "ok"
           THEN /\ pc' = [pc EXCEPT ![p] = "cr_upload"]
                /\ loc' = [loc EXCEPT ![p] = [NoLoc EXCEPT !.repository = dr.repository]]
           ELSE IF dr.status = "created"
           THEN /\ pc' = [pc EXCEPT ![p] = "cr_valid"]
                /\ loc' = [loc EXCEPT ![p] = NoLoc]
           ELSE /\ pc' = [pc EXCEPT ![p] = "done"]
                /\ loc' = [loc EXCEPT ![p] = [NoLoc EXCEPT !.result = dr.status]]
    /\ last' = [NoLast EXCEPT !.op = "create"]
    /\ UNCHANGED <<db, client>>

\* a repository, or a distribution, of the name is committed
Taken(path) == versions[path] # <<>> \/ distributions[path].present

\* get_dr_push, lines 603-620: the serializers validate the unique names; a
\* ValidationError is caught at 619, nothing is raised at 620, and line 633 reads
\* names that were never bound
CreateValidate(p) ==
    /\ pc[p] = "cr_valid"
    /\ IF Taken(req[p].path)
       THEN Finish(p, "UnboundLocalError")
       ELSE Goto(p, "cr_commit") /\ UNCHANGED loc
    /\ last' = [NoLast EXCEPT !.op = "step"]
    /\ UNCHANGED <<db, req, created, started, client>>

\* get_dr_push, lines 604-618: the repository and the distribution are inserted in one
\* transaction; an insert of a name committed meanwhile raises IntegrityError, which
\* nothing catches
CreateCommit(p) ==
    /\ pc[p] = "cr_commit"
    /\ IF Taken(req[p].path)
       THEN /\ Finish(p, "IntegrityError")
            /\ UNCHANGED <<distributions, versions, created>>
       ELSE /\ distributions' = [distributions EXCEPT
                                      ![req[p].path] = Distribution(req[p].path)]
            /\ versions' = [versions EXCEPT ![req[p].path] = <<VersionZero>>]
            /\ loc' = [loc EXCEPT ![p].repository = req[p].path]
            /\ Made(p, "repository", 0)
            /\ Goto(p, "cr_upload")
    /\ last' = [NoLast EXCEPT !.op = "step"]
    /\ UNCHANGED <<uploads, nUploads, artifacts, blobs, manifests, tags, contentArtifacts,
                   blobManifests, req, started, client>>

\* BlobUploads.create, lines 745-750
CreateUpload(p) ==
    /\ pc[p] = "cr_upload"
    /\ nUploads + 1 \in UploadPks
    /\ LET pk == nUploads + 1
       IN  /\ uploads' = [u \in DOMAIN uploads \cup {pk} |->
                            IF u = pk
                            THEN [repository |-> loc[p].repository, offset |-> 0,
                                  bytes |-> <<>>, sha256 |-> Sha256Init]
                            ELSE uploads[u]]
           /\ nUploads' = pk
           /\ client' = [u \in DOMAIN client \cup {pk} |->
                           IF u = pk THEN NoClient ELSE client[u]]
           /\ Made(p, "upload", pk)
    /\ Finish(p, "202")
    /\ last' = [NoLast EXCEPT !.op = "step"]
    /\ UNCHANGED <<distributions, versions, artifacts, blobs, manifests, tags,
                   contentArtifacts, blobManifests, req, started>>

\* ------------------------------------------------------------------ manifests
\* A manifest document is a sequence of tokens: the first is its "config" entry, the
\* others its "layers" entries.  Token 2 names the digest of payload <<0>>, token 3 that
\* of payload <<1>>; token 4 is an entry that is missing.
\* the documents pushed: naming the config blob <<0>> (with no layer, and with the
\* layer <<0>>), naming the config blob <<1>>, and without "config"
Bodies == {<<2>>, <<2, 2>>, <<3>>, <<4>>}

TokenDigest(token) == Sha256Digest(Sha256(<<token - 2>>))

\* json.loads(raw_data), content_data.get("config"), content_data.get("layers")
ParseManifest(body) ==
    [hasConfig |-> Head(body) # 4,
     config |-> IF Head(body) # 4 THEN TokenDigest(Head(body)) ELSE NoDigest,
     layers |-> {TokenDigest(Tail(body)[i]) : i \in 1 .. Len(Tail(body))}]

\* Manifests.put, lines 922-925, and Manifests.receive_artifact
ManifestPutStart(p, path, ref, body, content_type) ==
    /\ Idle(p)
    /\ started < MaxRequests
    /\ started' = started + 1
    /\ req' = [req EXCEPT ![p] = [NoReq EXCEPT !.op = "manifest_put", !.path = path,
                                               !.ref = ref, !.body = body,
                                               !.content_type = content_type]]
    /\ last' = [NoLast EXCEPT !.op = "manifest_put"]
    /\ LET dr == GetDrPush(path, FALSE)
           new == [pk |-> NextArtifactPk, sha256 |-> Sha256(body), size |-> Len(body),
                   file |-> [dir |-> "tmp", id |-> p], bytes |-> body]
           saved == SaveOrGetArtifact(artifacts, new)
       IN  IF dr.status # "ok"
           THEN /\ pc' = [pc EXCEPT ![p] = "done"]
                /\ loc' = [loc EXCEPT ![p] = [NoLoc EXCEPT !.result = dr.status]]
                /\ created' = [created EXCEPT ![p] = {}]
                /\ UNCHANGED artifacts
           ELSE /\ pc' = [pc EXCEPT ![p] = "mp_config"]
                /\ loc' = [loc EXCEPT ![p] = [NoLoc EXCEPT !.repository = dr.repository,
                                                           !.artifact = saved.row.pk]]
                /\ artifacts' = saved.rows
                /\ created' = [created EXCEPT ![p] =
                                 IF saved.isNew
                                 THEN {[table |-> "artifact", pk |-> saved.row.pk]}
                                 ELSE {}]
    /\ UNCHANGED <<distributions, versions, uploads, nUploads, blobs, manifests, tags,
                   contentArtifacts, blobManifests, client>>

\* a config lookup that goes on without the Blob
ConfigBlobUnchecked(body) ==
    LET doc == ParseManifest(body)
    IN  IF ~doc.hasConfig THEN [status |-> "AttributeError", pk |-> 0]
        ELSE IF \E b \in blobs : b.digest = doc.config
        THEN [status |-> "ok", pk |-> (CHOOSE b \in blobs : b.digest = doc.config).pk]
        ELSE [status |-> "ok", pk |-> 0]

\* Manifests.put, lines 926-930: the config blob the document names
ConfigBlob(body) ==
    LET doc == ParseManifest(body)
    IN  IF ~doc.hasConfig THEN [status |-> "AttributeError", pk |-> 0]
        ELSE IF \E b \in blobs : b.digest = doc.config
        THEN [status |-> "ok", pk |-> (CHOOSE b \in blobs : b.digest = doc.config).pk]
        ELSE [status |-> "Blob.DoesNotExist", pk |-> 0]

ManifestPutConfig(p) ==
    /\ pc[p] = "mp_config"
    /\ LET config == ConfigBlob(req[p].body)
       IN  IF config.status = "ok"
           THEN /\ Goto(p, "mp_manifest")
                /\ loc' = [loc EXCEPT ![p].config_blob = config.pk]
           ELSE Finish(p, config.status)
    /\ last' = [NoLast EXCEPT !.op = "step"]
    /\ UNCHANGED <<db, req, created, started, client>>

\* a put that takes the Manifest's digest from the reference of the URL when it has the
\* form of a digest
ManifestPutManifestByRef(p) ==
    /\ pc[p] = "mp_manifest"
    /\ LET artifact == CHOOSE a \in artifacts : a.pk = loc[p].artifact
           new == [pk |-> NextContentPk,
                   digest |-> IF req[p].ref.prefix = "sha256:" THEN req[p].ref
                              ELSE Sha256Digest(artifact.sha256),
                   schema_version |-> 2, media_type |-> req[p].content_type,
                   config_blob |-> loc[p].config_blob]
           saved == SaveOrGetManifest(manifests, new)
       IN  /\ manifests' = saved.rows
           /\ loc' = [loc EXCEPT ![p].manifest = saved.row.pk]
           /\ IF saved.isNew THEN Made(p, "manifest", saved.row.pk) ELSE UNCHANGED created
    /\ Goto(p, "mp_ca")
    /\ last' = [NoLast EXCEPT !.op = "step"]
    /\ UNCHANGED <<distributions, versions, uploads, nUploads, artifacts, blobs, tags,
                   contentArtifacts, blobManifests, req, started, client>>

\* Manifests.put, lines 932-941
ManifestPutManifest(p) ==
    /\ pc[p] = "mp_manifest"
    /\ LET artifact == CHOOSE a \in artifacts : a.pk = loc[p].artifact
           new == [pk |-> NextContentPk, digest |-> Sha256Digest(artifact.sha256),
                   schema_version |-> 2, media_type |-> req[p].content_type,
                   config_blob |-> loc[p].config_blob]
           saved == SaveOrGetManifest(manifests, new)
       IN  /\ manifests' = saved.rows
           /\ loc' = [loc EXCEPT ![p].manifest = saved.row.pk]
           /\ IF saved.isNew THEN Made(p, "manifest", saved.row.pk) ELSE UNCHANGED created
    /\ Goto(p, "mp_ca")
    /\ last' = [NoLast EXCEPT !.op = "step"]
    /\ UNCHANGED <<distributions, versions, uploads, nUploads, artifacts, blobs, tags,
                   contentArtifacts, blobManifests, req, started, client>>

ManifestOf(pk) == CHOOSE m \in manifests : m.pk = pk

\* Manifests.put, lines 942-946
ManifestPutContentArtifact(p) ==
    /\ pc[p] = "mp_ca"
    /\ LET new == [artifact |-> loc[p].artifact, content |-> loc[p].manifest,
                   relative_path |-> ManifestOf(loc[p].manifest).digest]
       IN  /\ contentArtifacts' = SaveContentArtifact(contentArtifacts, new)
           /\ IF contentArtifacts' # contentArtifacts
              THEN Made(p, "content_artifact", loc[p].manifest)
              ELSE UNCHANGED created
    /\ Goto(p, "mp_layers")
    /\ last' = [NoLast EXCEPT !.op = "step"]
    /\ UNCHANGED <<distributions, versions, uploads, nUploads, artifacts, blobs, manifests,
                   tags, blobManifests, req, loc, started, client>>

\* links to every Blob there is, listed or not
LayerLinksAll(manifest, body) ==
    {[manifest |-> manifest, manifest_blob |-> b.pk] : b \in blobs}

\* Manifests.put, lines 947-955: link the manifest to the layer blobs that exist
LayerLinks(manifest, body) ==
    {[manifest |-> manifest, manifest_blob |-> b.pk] :
        b \in {x \in blobs : x.digest \in ParseManifest(body).layers}}

ManifestPutLayers(p) ==
    /\ pc[p] = "mp_layers"
    /\ LET thru == LayerLinks(loc[p].manifest, req[p].body)
       IN  /\ blobManifests' = blobManifests \cup thru
           /\ IF thru \ blobManifests # {}
              THEN Made(p, "blob_manifest", loc[p].manifest)
              ELSE UNCHANGED created
    /\ Goto(p, "mp_tag")
    /\ last' = [NoLast EXCEPT !.op = "step"]
    /\ UNCHANGED <<distributions, versions, uploads, nUploads, artifacts, blobs, manifests,
                   tags, contentArtifacts, req, loc, started, client>>

\* Manifests.put, lines 956-960
ManifestPutTag(p) ==
    /\ pc[p] = "mp_tag"
    /\ LET new == [pk |-> NextContentPk, name |-> req[p].ref,
                   tagged_manifest |-> loc[p].manifest]
       IN  /\ tags' = SaveTag(tags, new)
           /\ IF tags' # tags THEN Made(p, "tag", new.pk) ELSE UNCHANGED created
    /\ Goto(p, "mp_enter")
    /\ last' = [NoLast EXCEPT !.op = "step"]
    /\ UNCHANGED <<distributions, versions, uploads, nUploads, artifacts, blobs, manifests,
                   contentArtifacts, blobManifests, req, loc, started, client>>

\* Manifests.put, line 961: with repository.new_version() as new_version
ManifestPutEnter(p) ==
    /\ pc[p] = "mp_enter"
    /\ loc' = [loc EXCEPT ![p].base = NewVersion(loc[p].repository),
                          ![p].work = NewVersion(loc[p].repository),
                          ![p].baseNumber = LatestNumber(loc[p].repository)]
    /\ Goto(p, "mp_scope")
    /\ last' = [NoLast EXCEPT !.op = "step"]
    /\ UNCHANGED <<db, req, created, started, client>>

\* Manifests.put, lines 962-966: the three mutations of the scope, in order
ScopeSteps == <<"add_manifest", "remove_tags", "add_tag">>

\* the scope with a removal that only takes the Tags of the name on the pushed Manifest
ScopeStepRemoveSame(work, step, manifest, name) ==
    IF step = "add_manifest"
    THEN AddContent(work, {m.pk : m \in {x \in manifests :
                                            x.digest = ManifestOf(manifest).digest}})
    ELSE IF step = "remove_tags"
    THEN RemoveContent(work, {t.pk : t \in {x \in tags : x.name = name
                                                         /\ x.tagged_manifest = manifest}})
    ELSE AddContent(work, {t.pk : t \in {x \in tags : x.name = name
                                                      /\ x.tagged_manifest = manifest}})

\* the scope without the addition of line 962
ScopeStepTagOnly(work, step, manifest, name) ==
    IF step = "add_manifest"
    THEN work
    ELSE IF step = "remove_tags"
    THEN RemoveContent(work, {t.pk : t \in {x \in tags : x.name = name}})
    ELSE AddContent(work, {t.pk : t \in {x \in tags : x.name = name
                                                      /\ x.tagged_manifest = manifest}})

\* the scope without the removal of line 963
ScopeStepKeepTags(work, step, manifest, name) ==
    IF step = "add_manifest"
    THEN AddContent(work, {m.pk : m \in {x \in manifests :
                                            x.digest = ManifestOf(manifest).digest}})
    ELSE IF step = "remove_tags"
    THEN work
    ELSE AddContent(work, {t.pk : t \in {x \in tags : x.name = name
                                                      /\ x.tagged_manifest = manifest}})

ScopeStep(work, step, manifest, name) ==
    IF step = "add_manifest"
    THEN AddContent(work, {m.pk : m \in {x \in manifests :
                                            x.digest = ManifestOf(manifest).digest}})
    ELSE IF step = "remove_tags"
    THEN RemoveContent(work, {t.pk : t \in {x \in tags : x.name = name}})
    ELSE AddContent(work, {t.pk : t \in {x \in tags : x.name = name
                                                      /\ x.tagged_manifest = manifest}})

\* a scope whose every mutation is published at once
ManifestPutScopeUnscoped(p) ==
    /\ pc[p] = "mp_scope"
    /\ LET n == Cardinality(loc[p].steps) + 1
           work == ScopeStep(loc[p].work, ScopeSteps[n], loc[p].manifest, req[p].ref)
       IN  /\ loc' = [loc EXCEPT ![p].work = work, ![p].steps = @ \cup {ScopeSteps[n]}]
           /\ versions' = Publish(loc[p].repository, work,
                                  [VersionZero EXCEPT !.base = loc[p].baseNumber,
                                                      !.op = "manifest_put",
                                                      !.manifest = loc[p].manifest,
                                                      !.name = req[p].ref])
           /\ Goto(p, IF n = Len(ScopeSteps) THEN "mp_exit" ELSE "mp_scope")
    /\ last' = [NoLast EXCEPT !.op = "step"]
    /\ UNCHANGED <<distributions, uploads, nUploads, artifacts, blobs, manifests, tags,
                   contentArtifacts, blobManifests, req, created, started, client>>

ManifestPutScope(p) ==
    /\ pc[p] = "mp_scope"
    /\ LET n == Cardinality(loc[p].steps) + 1
           work == ScopeStep(loc[p].work, ScopeSteps[n], loc[p].manifest, req[p].ref)
       IN  /\ loc' = [loc EXCEPT ![p].work = work, ![p].steps = @ \cup {ScopeSteps[n]}]
           /\ Goto(p, IF n = Len(ScopeSteps) THEN "mp_exit" ELSE "mp_scope")
    /\ last' = [NoLast EXCEPT !.op = "step"]
    /\ UNCHANGED <<db, req, created, started, client>>

\* the end of the scope: the new version is published
ManifestPutExit(p) ==
    /\ pc[p] = "mp_exit"
    /\ versions' = Publish(loc[p].repository, loc[p].work,
                           [VersionZero EXCEPT !.base = loc[p].baseNumber,
                                               !.op = "manifest_put",
                                               !.manifest = loc[p].manifest,
                                               !.name = req[p].ref])
    /\ Made(p, "version", Len(versions[loc[p].repository]))
    /\ pc' = [pc EXCEPT ![p] = "done"]
    /\ loc' = [loc EXCEPT ![p].result = "201", ![p].base = {}, ![p].work = {},
                          ![p].steps = {},
                          ![p].number = Len(versions[loc[p].repository])]
    /\ last' = [NoLast EXCEPT !.op = "step"]
    /\ UNCHANGED <<distributions, uploads, nUploads, artifacts, blobs, manifests, tags,
                   contentArtifacts, blobManifests, req, started, client>>

\* an exception inside the scope: no version is published
ManifestPutScopeFails(p) ==
    /\ pc[p] \in {"mp_scope", "mp_exit"}
    /\ Finish(p, "ScopeError")
    /\ last' = [NoLast EXCEPT !.op = "step"]
    /\ UNCHANGED <<db, req, created, started, client>>

\* ------------------------------------------------------------------ task queue
\* A reservation resource is a repository, a remote or a Manifest.
Resource(kind, name, pk) == [kind |-> kind, name |-> name, pk |-> pk]
RepositoryResource(repository) == Resource("repository", repository, 0)

\* the keyword arguments of the tasks; a task reads those its handler passes
NoKwargs == [repository_pk |-> "none", remote_pk |-> "none", mirror |-> FALSE,
             manifest_pk |-> 0, tag |-> NoDigest, content_units |-> <<>>, pks |-> {},
             containerfile_pk |-> 0]

\* enqueue_with_reservation(func, resources, kwargs): the tasks a request has queued,
\* with the new task at the end
EnqueueWithReservation(queue, func, resources, kwargs) ==
    Append(queue, [func |-> func, resources |-> resources, kwargs |-> kwargs])

\* ------------------------------------------------------------------ remove
\* A content unit of a remove request is the pk its URL names, or Star for "*".
Star == 0

\* the pks of the content there is
ContentPks == {b.pk : b \in blobs} \cup {m.pk : m \in manifests} \cup {t.pk : t \in tags}

\* NamedModelViewSet.get_resource(url, Content), line 292
GetResource(url) ==
    IF url \in ContentPks THEN [status |-> "ok", pk |-> url]
    ELSE [status |-> "ValidationError", pk |-> 0]

\* ContainerRepositoryViewSet.remove, lines 286-294: the units handed to the task
RECURSIVE RemoveUnits(_, _)
RemoveUnits(content_units, remove_content_units) ==
    IF content_units = <<>> THEN [status |-> "ok", units |-> remove_content_units]
    ELSE IF Head(content_units) = Star
    THEN [status |-> "ok", units |-> <<Star>>]
    ELSE IF GetResource(Head(content_units)).status # "ok"
    THEN [status |-> GetResource(Head(content_units)).status, units |-> <<>>]
    ELSE RemoveUnits(Tail(content_units),
                     Append(remove_content_units, GetResource(Head(content_units)).pk))

\* ContainerRepositoryViewSet.remove, lines 286-293: the number of entries the loop hands
\* to get_resource, which are those it reaches before a "*" or a failed lookup ends it
RECURSIVE RemoveLookups(_)
RemoveLookups(content_units) ==
    IF content_units = <<>> THEN 0
    ELSE IF Head(content_units) = Star THEN 0
    ELSE IF GetResource(Head(content_units)).status # "ok" THEN 1
    ELSE 1 + RemoveLookups(Tail(content_units))

\* ContainerRepositoryViewSet.remove: the task is queued, or the request fails
RemoveStart(p, repository, content_units) ==
    /\ Idle(p)
    /\ started < MaxRequests
    /\ started' = started + 1
    /\ versions[repository] # <<>>
    /\ req' = [req EXCEPT ![p] = [NoReq EXCEPT !.op = "remove", !.path = repository,
                                               !.units = content_units]]
    /\ created' = [created EXCEPT ![p] = {}]
    /\ LET out == RemoveUnits(content_units, <<>>)
       IN  IF out.status # "ok"
           THEN /\ pc' = [pc EXCEPT ![p] = "done"]
                /\ loc' = [loc EXCEPT ![p] = [NoLoc EXCEPT !.repository = repository,
                                                           !.result = out.status]]
           ELSE /\ pc' = [pc EXCEPT ![p] = "rm_task"]
                /\ loc' = [loc EXCEPT ![p] =
                             [NoLoc EXCEPT
                                !.repository = repository,
                                !.units = out.units,
                                !.tasks = EnqueueWithReservation(
                                             <<>>, "recursive_remove_content",
                                             {RepositoryResource(repository)},
                                             [NoKwargs EXCEPT !.repository_pk = repository,
                                                              !.content_units = out.units]),
                                !.result = "202"]]
    /\ last' = [NoLast EXCEPT !.op = "remove"]
    /\ UNCHANGED <<db, client>>

\* tasks.recursive_remove_content, run under the reservation of the repository: a new
\* version without the units, or without any content when the units are "*"
RecursiveRemoveContent(content, units) ==
    IF units = <<Star>> THEN {}
    ELSE RemoveContent(content, {units[i] : i \in DOMAIN units})

RemoveTask(p) ==
    /\ pc[p] = "rm_task"
    /\ LET work == RecursiveRemoveContent(NewVersion(loc[p].repository), loc[p].units)
       IN  /\ versions' = Publish(loc[p].repository, work,
                                    [VersionZero EXCEPT
                                        !.base = LatestNumber(loc[p].repository),
                                        !.op = "remove"])
           /\ loc' = [loc EXCEPT ![p].number = Len(versions[loc[p].repository])]
    /\ Made(p, "version", Len(versions[loc[p].repository]))
    /\ Goto(p, "done")
    /\ last' = [NoLast EXCEPT !.op = "step"]
    /\ UNCHANGED <<distributions, uploads, nUploads, artifacts, blobs, manifests, tags,
                   contentArtifacts, blobManifests, req, started, client>>

\* ------------------------------------------------------------------ repository management
\* The handlers of ContainerRepositoryViewSet.  Each validates its request, prepares the
\* arguments of one task and queues it; a request the serializer rejects queues nothing.
\* self.get_object() and the OperationPostponedResponse (202), or the error response
Postponed(p, op, repository, status, queue) ==
    /\ Idle(p)
    /\ started < MaxRequests
    /\ started' = started + 1
    /\ versions[repository] # <<>>
    /\ req' = [req EXCEPT ![p] = [NoReq EXCEPT !.op = op, !.path = repository]]
    /\ created' = [created EXCEPT ![p] = {}]
    /\ pc' = [pc EXCEPT ![p] = IF status = "ok" THEN "queued" ELSE "done"]
    /\ loc' = [loc EXCEPT ![p] = [NoLoc EXCEPT !.repository = repository,
                                               !.tasks = queue,
                                               !.result = IF status = "ok" THEN "202"
                                                          ELSE status]]
    /\ last' = [NoLast EXCEPT !.op = op]
    /\ UNCHANGED client

\* ContainerRepositoryViewSet.sync, lines 179-183
SyncTasks(repository, remote, mirror) ==
    EnqueueWithReservation(<<>>, "synchronize",
                           {RepositoryResource(repository), Resource("remote", remote, 0)},
                           [NoKwargs EXCEPT !.remote_pk = remote,
                                            !.repository_pk = repository,
                                            !.mirror = mirror])

Sync(p, repository, remote, mirror, valid) ==
    /\ Postponed(p, "sync", repository, IF valid THEN "ok" ELSE "ValidationError",
                 IF valid THEN SyncTasks(repository, remote, mirror) ELSE <<>>)
    /\ UNCHANGED db

\* a tag request that reserves the Manifest only
TagTasksManifestOnly(repository, manifest, tag) ==
    EnqueueWithReservation(<<>>, "tag_image",
                           {Resource("manifest", "none", manifest)},
                           [NoKwargs EXCEPT !.manifest_pk = manifest, !.tag = tag,
                                            !.repository_pk = repository])

\* ContainerRepositoryViewSet.tag, lines 206-210
TagTasks(repository, manifest, tag) ==
    EnqueueWithReservation(<<>>, "tag_image",
                           {RepositoryResource(repository),
                            Resource("manifest", "none", manifest)},
                           [NoKwargs EXCEPT !.manifest_pk = manifest, !.tag = tag,
                                            !.repository_pk = repository])

TagImage(p, repository, manifest, tag, valid) ==
    /\ Postponed(p, "tag", repository, IF valid THEN "ok" ELSE "ValidationError",
                 IF valid THEN TagTasks(repository, manifest, tag) ELSE <<>>)
    /\ UNCHANGED db

\* ContainerRepositoryViewSet.untag, lines 234-236
UntagTasks(repository, tag) ==
    EnqueueWithReservation(<<>>, "untag_image", {RepositoryResource(repository)},
                           [NoKwargs EXCEPT !.tag = tag, !.repository_pk = repository])

UntagImage(p, repository, tag, valid) ==
    /\ Postponed(p, "untag", repository, IF valid THEN "ok" ELSE "ValidationError",
                 IF valid THEN UntagTasks(repository, tag) ELSE <<>>)
    /\ UNCHANGED db

\* ContainerRepositoryViewSet.add, lines 257-260: every URL is resolved to a content pk
RECURSIVE AddUnits(_, _)
AddUnits(content_units, add_content_units) ==
    IF content_units = <<>> THEN [status |-> "ok", units |-> add_content_units]
    ELSE IF GetResource(Head(content_units)).status # "ok"
    THEN [status |-> GetResource(Head(content_units)).status, units |-> <<>>]
    ELSE AddUnits(Tail(content_units),
                  Append(add_content_units, GetResource(Head(content_units)).pk))

\* ContainerRepositoryViewSet.add, lines 262-266
AddTasks(repository, add_content_units) ==
    EnqueueWithReservation(<<>>, "recursive_add_content", {RepositoryResource(repository)},
                           [NoKwargs EXCEPT !.repository_pk = repository,
                                            !.content_units = add_content_units])

AddStart(p, repository, content_units) ==
    LET out == AddUnits(content_units, <<>>)
    IN  /\ Postponed(p, "add", repository, out.status,
                     IF out.status = "ok" THEN AddTasks(repository, out.units) ELSE <<>>)
        /\ UNCHANGED db

\* a filter of a copy request: absent (None), or the values to keep
NoFilter == [given |-> FALSE, values |-> {}]
Filter(values) == [given |-> TRUE, values |-> values]

\* ContainerRepositoryViewSet.copy_tags, lines 318-324: the Tags of the source version,
\* of the names asked for
TagsToAdd(source, names) ==
    LET content == versions[source.repository][source.number + 1].content
        tags_in_repo == {t \in tags : t.pk \in content}
    IN  IF ~names.given THEN tags_in_repo
        ELSE {t \in tags_in_repo : t.name \in names.values}

\* ContainerRepositoryViewSet.copy_tags, lines 326-333
CopyTagsTasks(repository, source, names) ==
    EnqueueWithReservation(<<>>, "recursive_add_content", {RepositoryResource(repository)},
                           [NoKwargs EXCEPT !.repository_pk = repository,
                                            !.pks = {t.pk : t \in TagsToAdd(source, names)}])

CopyTags(p, repository, source, names, valid) ==
    /\ Postponed(p, "copy_tags", repository, IF valid THEN "ok" ELSE "ValidationError",
                 IF valid THEN CopyTagsTasks(repository, source, names) ELSE <<>>)
    /\ UNCHANGED db

\* ContainerRepositoryViewSet.copy_manifests, lines 352-362: the Manifests of the source
\* version, of the digests and media types asked for
ManifestsToAdd(source, digests, media_types) ==
    LET content == versions[source.repository][source.number + 1].content
        manifests_in_repo == {m \in manifests : m.pk \in content}
    IN  {m \in manifests_in_repo :
            /\ digests.given => m.digest \in digests.values
            /\ media_types.given => m.media_type \in media_types.values}

\* ContainerRepositoryViewSet.copy_manifests, lines 363-367
CopyManifestsTasks(repository, source, digests, media_types) ==
    EnqueueWithReservation(
        <<>>, "recursive_add_content", {RepositoryResource(repository)},
        [NoKwargs EXCEPT !.repository_pk = repository,
                         !.pks = {m.pk : m \in ManifestsToAdd(source, digests, media_types)}])

CopyManifests(p, repository, source, digests, media_types, valid) ==
    /\ Postponed(p, "copy_manifests", repository,
                 IF valid THEN "ok" ELSE "ValidationError",
                 IF valid THEN CopyManifestsTasks(repository, source, digests, media_types)
                 ELSE <<>>)
    /\ UNCHANGED db

\* ContainerRepositoryViewSet.build_image, lines 401-410
BuildImageTasks(repository, containerfile, tag) ==
    EnqueueWithReservation(<<>>, "build_image_from_containerfile",
                           {RepositoryResource(repository)},
                           [NoKwargs EXCEPT !.containerfile_pk = containerfile,
                                            !.tag = tag,
                                            !.repository_pk = repository])

\* ContainerRepositoryViewSet.build_image: the Containerfile is saved as an Artifact, or
\* the Artifact of its digest is reused (lines 392-396), before the task is queued
BuildImage(p, repository, containerfile, tag, valid) ==
    LET new == [pk |-> NextArtifactPk, sha256 |-> Sha256(containerfile),
                size |-> Len(containerfile), file |-> [dir |-> "tmp", id |-> p],
                bytes |-> containerfile]
        saved == SaveOrGetArtifact(artifacts, new)
    IN  /\ Postponed(p, "build_image", repository,
                     IF valid THEN "ok" ELSE "ValidationError",
                     IF valid THEN BuildImageTasks(repository, saved.row.pk, tag) ELSE <<>>)
        /\ artifacts' = IF valid THEN saved.rows ELSE artifacts
        /\ UNCHANGED <<distributions, versions, uploads, nUploads, blobs, manifests, tags,
                       contentArtifacts, blobManifests>>

\* tasks.recursive_add_content, run under the reservation of the repository: a new
\* version with the units added
RecursiveAddContent(content, kwargs) ==
    AddContent(content, {kwargs.content_units[i] : i \in DOMAIN kwargs.content_units}
                           \cup kwargs.pks)

AddTask(p) ==
    /\ pc[p] = "queued"
    /\ loc[p].tasks # <<>>
    /\ loc[p].tasks[1].func = "recursive_add_content"
    /\ LET work == RecursiveAddContent(NewVersion(loc[p].repository), loc[p].tasks[1].kwargs)
       IN  /\ versions' = Publish(loc[p].repository, work,
                                    [VersionZero EXCEPT
                                        !.base = LatestNumber(loc[p].repository),
                                        !.op = "add"])
           /\ loc' = [loc EXCEPT ![p].number = Len(versions[loc[p].repository])]
    /\ Made(p, "version", Len(versions[loc[p].repository]))
    /\ Goto(p, "done")
    /\ last' = [NoLast EXCEPT !.op = "step"]
    /\ UNCHANGED <<distributions, uploads, nUploads, artifacts, blobs, manifests, tags,
                   contentArtifacts, blobManifests, req, started, client>>

\* ------------------------------------------------------------------ pulls
\* ContainerRegistryApiMixin.get_drv_pull: the version a pull is answered from
GetDrvPull(path) ==
    LET distribution == distributions[path]
    IN  IF ~distribution.present THEN [status |-> "Http404", content |-> {}]
        ELSE IF distribution.repository # "none"
        THEN [status |-> "ok", content |-> LatestVersion(distribution.repository)]
        ELSE IF distribution.repository_version # NoVersion
        THEN [status |-> "ok",
              content |-> versions[distribution.repository_version.repository]
                                  [distribution.repository_version.number + 1].content]
        ELSE [status |-> "Http404", content |-> {}]

\* a lookup in the tables, not in the content of the version
ResolveManifestAnywhere(content, ref) ==
    IF ref.prefix # "sha256:"
    THEN LET found == {t \in tags : t.name = ref}
         IN  IF found = {} THEN 0 ELSE (CHOOSE t \in found : TRUE).tagged_manifest
    ELSE LET found == {m \in manifests : m.digest = ref}
         IN  IF found = {} THEN 0 ELSE (CHOOSE m \in found : TRUE).pk

\* Manifests.get / Manifests.head, lines 880-887 and 899-906
ResolveManifest(content, ref) ==
    IF ref.prefix # "sha256:"
    THEN LET found == {t \in tags : t.name = ref /\ t.pk \in content}
         IN  IF found = {} THEN 0 ELSE (CHOOSE t \in found : TRUE).tagged_manifest
    ELSE LET found == {m \in manifests : m.digest = ref /\ m.pk \in content}
         IN  IF found = {} THEN 0 ELSE (CHOOSE m \in found : TRUE).pk

ManifestGet(path, ref) ==
    /\ LET drv == GetDrvPull(path)
           manifest == ResolveManifest(drv.content, ref)
       IN  last' = [NoLast EXCEPT !.op = "manifest_get", !.path = path, !.ref = ref,
                                  !.manifest = manifest, !.found = drv.status = "ok",
                                  !.result = IF drv.status # "ok" \/ manifest = 0
                                             THEN "Http404" ELSE "302"]
    /\ UNCHANGED <<db, client>>
    /\ UNCHANGED procVars

\* a response that carries the digest of the Manifest's config Blob
ManifestResponseOfConfig(manifest) ==
    LET held == {ca \in contentArtifacts : ca.content = manifest}
        config == {b \in blobs : b.pk = ManifestOf(manifest).config_blob}
    IN  IF Cardinality(held) = 0 THEN [status |-> "DoesNotExist", digest |-> NoDigest]
        ELSE IF Cardinality(held) > 1
        THEN [status |-> "MultipleObjectsReturned", digest |-> NoDigest]
        ELSE [status |-> "200", digest |-> (CHOOSE b \in config : TRUE).digest]

\* ManifestResponse, lines 520-530: manifest._artifacts.get() and the headers
ManifestResponse(manifest) ==
    LET held == {ca \in contentArtifacts : ca.content = manifest}
    IN  IF Cardinality(held) = 0 THEN [status |-> "DoesNotExist", digest |-> NoDigest]
        ELSE IF Cardinality(held) > 1
        THEN [status |-> "MultipleObjectsReturned", digest |-> NoDigest]
        ELSE [status |-> "200", digest |-> ManifestOf(manifest).digest]

\* Manifests.head
ManifestHead(path, ref) ==
    /\ LET drv == GetDrvPull(path)
           manifest == ResolveManifest(drv.content, ref)
       IN  last' = IF drv.status # "ok" \/ manifest = 0
                   THEN [NoLast EXCEPT !.op = "manifest_head", !.path = path, !.ref = ref,
                                       !.found = drv.status = "ok", !.result = "Http404"]
                   ELSE [NoLast EXCEPT !.op = "manifest_head", !.path = path, !.ref = ref,
                                       !.found = TRUE, !.manifest = manifest,
                                       !.digest = ManifestResponse(manifest).digest,
                                       !.result = ManifestResponse(manifest).status]
    /\ UNCHANGED <<db, client>>
    /\ UNCHANGED procVars

\* ------------------------------------------------------------------ specifications
Offsets == 0 .. MaxUploadLen

\* the Upload pks a client can know of: those handed out so far
KnownPks == 1 .. nUploads

\* no request is being served
Quiet == \A p \in Procs : Idle(p)

CreateAny == \E path \in Paths : Create(path)
\* a Content-Range header states the range the chunk really covers
PartialUpdateAny ==
    \E path \in Paths, pk \in KnownPks, mode \in {"range", "whole", "norange"},
       start \in Offsets, chunk \in Chunks :
        /\ mode = "range" => chunk # <<>>
        /\ mode # "range" => start = 0
        /\ PartialUpdate(path, pk, mode, start, start + Len(chunk) - 1, chunk)
BlobPutStartAny(procs, digests) ==
    \E p \in procs, path \in Paths, pk \in KnownPks, digest \in digests :
        BlobPutStart(p, path, pk, digest)
BlobPutStep ==
    \E p \in Procs :
        \/ BlobPutArtifact(p)
        \/ BlobPutBlob(p)
        \/ BlobPutContentArtifact(p)
        \/ BlobPutEnter(p)
        \/ BlobPutAdd(p)
        \/ BlobPutDelete(p)
ManifestPutStartAny(procs) ==
    \E p \in procs, path \in Paths, ref \in TagNames, body \in Bodies,
       content_type \in ContentTypes :
        ManifestPutStart(p, path, ref, body, content_type)
ManifestPutStep ==
    \E p \in Procs :
        \/ ManifestPutConfig(p)
        \/ ManifestPutManifest(p)
        \/ ManifestPutContentArtifact(p)
        \/ ManifestPutLayers(p)
        \/ ManifestPutTag(p)
        \/ ManifestPutEnter(p)
        \/ ManifestPutScope(p)
        \/ ManifestPutExit(p)
        \/ ManifestPutScopeFails(p)
ManifestGetAny == \E path \in Paths, ref \in TagNames : ManifestGet(path, ref)

\* the documents and references of the pushes and pulls by reference: documents naming
\* the config blob <<0>> with no layer, with a layer that was never pushed, and with a
\* layer that exists and one that does not; the tag latest and two digests
ServeBodies == {<<2>>, <<2, 3>>, <<2, 2, 3>>}
ServeRefs ==
    {DigestString("latest", 0), Sha256Digest(Sha256(<<2>>)), Sha256Digest(Sha256(<<2, 3>>))}

ManifestPutRefAny ==
    \E ref \in ServeRefs, body \in ServeBodies, path \in Paths,
       content_type \in ContentTypes :
        ManifestPutStart(1, path, ref, body, content_type)
ManifestGetRefAny == \E path \in Paths, ref \in ServeRefs : ManifestGet(path, ref)
ManifestHeadRefAny == \E path \in Paths, ref \in ServeRefs : ManifestHead(path, ref)

\* One upload session, one request at a time, from an empty registry.
Init ==
    /\ distributions = [path \in Paths |-> NoDistribution]
    /\ versions = [path \in Paths |-> <<>>]
    /\ uploads = [u \in {} |-> NoUpload]
    /\ nUploads = 0
    /\ artifacts = {}
    /\ blobs = {}
    /\ manifests = {}
    /\ tags = {}
    /\ contentArtifacts = {}
    /\ blobManifests = {}
    /\ pc = [p \in Procs |-> "idle"]
    /\ req = [p \in Procs |-> NoReq]
    /\ loc = [p \in Procs |-> NoLoc]
    /\ created = [p \in Procs |-> {}]
    /\ started = 0
    /\ client = [u \in {} |-> NoClient]
    /\ last = NoLast

Next ==
    \/ Quiet /\ nUploads = 0 /\ CreateAny
    \/ Quiet /\ PartialUpdateAny
    \/ Quiet /\ BlobPutStartAny({1}, AssertedDigests)
    \/ BlobPutStep

Spec == Init /\ [][Next]_vars

\* A registry that has served one push already: Upload 1 was filled with <<0>> and
\* finalized into repository p1, and Uploads 2 and 3 have been started and filled.
PushPayloads == {<<0>>, <<1>>}

FilledUpload(repository, bytes) ==
    AppendChunk([repository |-> repository, offset |-> 0, bytes |-> <<>>,
                 sha256 |-> Sha256Init], bytes, Len(bytes))

InitPushWith(payloads) ==
    /\ distributions = [path \in Paths |-> Distribution(path)]
    /\ artifacts = {[pk |-> 1, sha256 |-> Sha256(<<0>>), size |-> 1,
                     file |-> [dir |-> "upload", id |-> 1], bytes |-> <<0>>]}
    /\ blobs = {[pk |-> 1, digest |-> Sha256Digest(Sha256(<<0>>)),
                 media_type |-> "REGULAR_BLOB"]}
    /\ contentArtifacts = {[artifact |-> 1, content |-> 1,
                            relative_path |-> Sha256Digest(Sha256(<<0>>))]}
    /\ versions = [path \in Paths |->
                     <<VersionZero,
                       [VersionZero EXCEPT !.content = {1}, !.base = 0, !.op = "blob_put"]>>]
    /\ \E b2 \in payloads, b3 \in payloads :
          /\ uploads = [u \in {2, 3} |-> FilledUpload("p1", IF u = 2 THEN b2 ELSE b3)]
          /\ client = [u \in {1, 2, 3} |->
                         [NoClient EXCEPT !.n = 1,
                                          !.sent = IF u = 1 THEN <<0>>
                                                   ELSE IF u = 2 THEN b2 ELSE b3]]
    /\ nUploads = 3
    /\ manifests = {}
    /\ tags = {}
    /\ blobManifests = {}
    /\ pc = [p \in Procs |-> "idle"]
    /\ req = [p \in Procs |-> NoReq]
    /\ loc = [p \in Procs |-> NoLoc]
    /\ created = [p \in Procs |-> {}]
    /\ started = 0
    /\ last = NoLast

InitPush == InitPushWith(PushPayloads)
InitManifest == InitPushWith({<<1>>})

\* Two pushes of blobs, one after the other.
NextDedup ==
    \/ Quiet /\ BlobPutStartAny(Procs, AssertedDigests)
    \/ BlobPutStep

SpecDedup == InitPush /\ [][NextDedup]_vars

\* Concurrent finalize requests.
NextFinalize ==
    \/ BlobPutStartAny(Procs, AssertedDigests)
    \/ BlobPutStep

SpecFinalize == InitPush /\ [][NextFinalize]_vars

\* Concurrent pushes of manifests.
NextPush ==
    \/ ManifestPutStartAny(Procs)
    \/ ManifestPutStep

SpecPush == InitManifest /\ [][NextPush]_vars

\* Pushes of manifests by one client, one after the other, and pulls at any moment.
NextPull ==
    \/ ManifestPutStartAny({1})
    \/ ManifestPutStep
    \/ ManifestGetAny

SpecPull == InitManifest /\ [][NextPull]_vars

\* ------------------------------------------------------------------ properties
\* the bytes stored for a Blob: those of the Artifacts associated with it
BlobContent(blob) ==
    {a.bytes : a \in {x \in artifacts :
                        \E ca \in contentArtifacts : ca.content = blob /\ ca.artifact = x.pk}}

\* the request of handler p got as far as comparing the digest
Compared(p) == req[p].op = "blob_put" /\ loc[p].upload # NoUpload

\* C3: an append whose declared start offset differs from the Upload's offset fails with
\* the offset-mismatch error and leaves the Upload, and every other row, as it was.
C3_MisalignedAppendFails ==
    [][(last'.op = "partial_update" /\ last'.found /\ ~last'.aligned)
          => (last'.result = "OffsetMismatch" /\ uploads' = uploads /\ UNCHANGED db)]_vars

\* an Upload holding bytes has refused an append declared at another offset
C3_Witness ==
    /\ last.op = "partial_update" /\ last.found /\ ~last.aligned
    /\ last.result = "OffsetMismatch"
    /\ last.pk \in DOMAIN uploads
    /\ uploads[last.pk].offset > 0

\* C4: finalize with an asserted digest that is not the digest of the accumulated bytes
\* fails with the digest-mismatch error, creates nothing and keeps the Upload.
C4_MismatchedDigestFails ==
    \A p \in Procs :
        (Compared(p) /\ req[p].digest # Sha256Digest(Sha256(loc[p].upload.bytes)))
            => /\ loc[p].result = "DigestMismatch"
               /\ created[p] = {}
               /\ req[p].pk \in DOMAIN uploads
               /\ last.op = "blob_put" => uploads[req[p].pk] = loc[p].upload

\* C5: appends declared at the Upload's offset all succeed, the offset is the number of
\* bytes sent, and finalize with the SHA-256 of the concatenation succeeds and yields a
\* Blob whose artifact holds exactly the concatenation.
C5_ContiguousUpload ==
    /\ \A pk \in DOMAIN uploads :
          ~client[pk].other => /\ client[pk].ok
                               /\ uploads[pk].offset = Len(client[pk].sent)
    /\ \A p \in Procs :
          (Compared(p) /\ loc[p].clean /\ req[p].digest = Sha256Digest(Sha256(loc[p].sent)))
              => /\ loc[p].result \in {"none", "201"}
                 /\ pc[p] = "done" => /\ loc[p].result = "201"
                                      /\ BlobContent(loc[p].blob) = {loc[p].sent}

\* two chunks were appended one after the other and the Upload was finalized
C5_Witness ==
    \E p \in Procs :
        /\ Compared(p) /\ loc[p].clean /\ pc[p] = "done" /\ loc[p].result = "201"
        /\ client[req[p].pk].n = 2
        /\ loc[p].sent = <<0, 1>>
        /\ req[p].digest = Sha256Digest(Sha256(<<0, 1>>))
        /\ BlobContent(loc[p].blob) = {<<0, 1>>}

\* the request of handler p was a finalize that passed the digest comparison and returned
Finalized(p) ==
    /\ Compared(p) /\ DigestMatches(loc[p].upload, req[p].digest)
    /\ pc[p] = "done"

\* the rows kept for a payload
ArtifactsOf(bytes) == {a \in artifacts : a.sha256 = Sha256(bytes)}
BlobsOf(digest) == {b \in blobs : b.digest = digest}
StoredCopies(bytes) == {a.file : a \in {x \in artifacts : x.bytes = bytes}}

\* C6: the same payload pushed twice, one push after the other with the same digest,
\* yields the same Artifact and the same Blob, and one Artifact, one Blob and one stored
\* copy of the bytes exist for the digest.
C6_Dedup ==
    \A p \in Procs, q \in Procs :
        (/\ Finalized(p) /\ Finalized(q)
         /\ loc[p].upload.bytes = loc[q].upload.bytes
         /\ req[p].digest = req[q].digest
         /\ req[p].digest = Sha256Digest(Sha256(loc[p].upload.bytes)))
            => /\ loc[p].result = "201" /\ loc[q].result = "201"
               /\ loc[p].artifact = loc[q].artifact
               /\ loc[p].blob = loc[q].blob
               /\ {a.pk : a \in ArtifactsOf(loc[p].upload.bytes)} = {loc[p].artifact}
               /\ {b.pk : b \in BlobsOf(req[p].digest)} = {loc[p].blob}
               /\ Cardinality(StoredCopies(loc[p].upload.bytes)) = 1

\* Uploads 2 and 3 held the same new payload and were finalized one after the other;
\* the second push created no row
C6_Witness ==
    /\ Finalized(1) /\ Finalized(2)
    /\ req[1].pk # req[2].pk
    /\ loc[1].upload.bytes = <<1>> /\ loc[2].upload.bytes = <<1>>
    /\ req[1].digest = Sha256Digest(Sha256(<<1>>)) /\ req[2].digest = req[1].digest
    /\ loc[1].blob = loc[2].blob
    /\ \E p \in Procs : {c.table : c \in created[p]} = {"version"}

\* C7: two finalize requests for the same digest on different Uploads, interleaved in any
\* order, both succeed with the same Blob; one Artifact, one Blob and one association
\* exist for the digest, and no committed row is ever rewritten.
C7_State ==
    /\ \A p \in Procs : Finalized(p) => loc[p].result = "201"
    /\ \A p \in Procs, q \in Procs :
          (/\ Finalized(p) /\ Finalized(q)
           /\ req[p].pk # req[q].pk
           /\ req[p].digest = req[q].digest)
              => /\ loc[p].blob = loc[q].blob
                 /\ loc[p].artifact = loc[q].artifact
                 /\ Cardinality(BlobsOf(req[p].digest)) = 1
                 /\ Cardinality({a \in artifacts : a.sha256 = StripPrefix(req[p].digest)}) = 1
                 /\ Cardinality({ca \in contentArtifacts : ca.content = loc[p].blob}) = 1

C7_RowsKept ==
    /\ \A a \in artifacts : a \in artifacts'
    /\ \A b \in blobs : b \in blobs'
    /\ \A ca \in contentArtifacts : ca \in contentArtifacts'

\* C7: the outcome of the two requests holds in every state, and no step rewrites or
\* drops a committed Artifact, Blob or association.
C7_ConcurrentFinalize == []C7_State /\ [][C7_RowsKept]_vars

\* both requests returned, one having created the Artifact and the other the Blob
C7_Witness ==
    \E p \in Procs, q \in Procs :
        /\ p # q
        /\ Finalized(p) /\ Finalized(q)
        /\ req[p].pk # req[q].pk
        /\ req[p].digest = req[q].digest
        /\ loc[p].result = "201" /\ loc[q].result = "201"
        /\ "artifact" \in {c.table : c \in created[p]}
        /\ "blob" \in {c.table : c \in created[q]}

\* C1: two pushes that publish a version of the same repository never compute their
\* versions from the same prior version, and after both the latest version holds the
\* content added by both.
C1_NoLostUpdate ==
    /\ \A path \in Paths : \A i \in DOMAIN versions[path], j \in DOMAIN versions[path] :
          i # j => versions[path][i].base # versions[path][j].base
    /\ \A p \in Procs, q \in Procs :
          (/\ Finalized(p) /\ Finalized(q)
           /\ loc[p].result = "201" /\ loc[q].result = "201"
           /\ loc[p].repository = loc[q].repository)
              => {loc[p].blob, loc[q].blob} \subseteq LatestVersion(loc[p].repository)

\* the Tags of a name that a content set holds
TagsIn(content, name) == {t \in tags : t.name = name /\ t.pk \in content}

\* C2: every published version holds at most one Tag of any name, whatever the order and
\* interleaving of the manifest pushes.
C2_OneTagPerName ==
    \A path \in Paths : \A i \in DOMAIN versions[path] : \A name \in TagNames :
        Cardinality(TagsIn(versions[path][i].content, name)) <= 1

\* a version was published in which a name moved from one Manifest to another
C2_Witness ==
    \E path \in Paths : \E i \in DOMAIN versions[path] :
        LET v == versions[path][i]
        IN  /\ v.op = "manifest_put"
            /\ \E old \in tags, new \in tags :
                  /\ old.name = v.name /\ new.name = v.name
                  /\ old.tagged_manifest # new.tagged_manifest
                  /\ new.tagged_manifest = v.manifest
                  /\ old.pk \in versions[path][v.base + 1].content
                  /\ TagsIn(v.content, v.name) = {new}

\* the request of handler p was a manifest put that reached the repository
Received(p) == req[p].op = "manifest_put" /\ loc[p].repository # "none"

\* C9: a manifest put that fails part-way leaves nothing it created.
C9_FailedPutLeavesNothing ==
    \A p \in Procs :
        (Received(p) /\ pc[p] = "done" /\ loc[p].result # "201") => created[p] = {}

\* the config digest of the document of handler p names no Blob
Unresolved(p) ==
    /\ ParseManifest(req[p].body).hasConfig
    /\ ~\E b \in blobs : b.digest = ParseManifest(req[p].body).config

\* C10: a manifest put whose config digest matches no Blob fails with the
\* unresolved-reference error and creates no Manifest, no Tag and no version.
C10_UnresolvedConfig ==
    \A p \in Procs :
        (Received(p) /\ Unresolved(p))
            => /\ pc[p] \in {"mp_config", "done"}
               /\ pc[p] = "done" => loc[p].result = "Blob.DoesNotExist"
               /\ {c.table : c \in created[p]} \subseteq {"artifact"}

\* such a put has failed, after an earlier put had published a Manifest and a Tag
C10_Witness ==
    \E p \in Procs :
        /\ Received(p) /\ Unresolved(p)
        /\ pc[p] = "done" /\ loc[p].result = "Blob.DoesNotExist"
        /\ manifests # {} /\ tags # {}

\* the version record a pull of the path is answered from
Served(path) ==
    versions[distributions[path].repository][Len(versions[distributions[path].repository])]

\* a version published by a manifest put holds the Manifest and exactly the new Tag
Complete(v) ==
    /\ v.manifest \in v.content
    /\ \E t \in tags : /\ t.name = v.name /\ t.tagged_manifest = v.manifest
                       /\ TagsIn(v.content, v.name) = {t}

\* C8: a pull served while a manifest put is in progress is answered from the previous
\* version or from the complete new one: never from a version with the new Manifest but
\* not the new Tag, without the name the previous version had, or with two Tags of it.
C8_PullSeesWholeVersion ==
    \A path \in Paths :
        (last.op = "manifest_get" /\ last.found /\ GetDrvPull(path).status = "ok")
            => /\ GetDrvPull(path).content = Served(path).content
               /\ Served(path).op = "manifest_put" => Complete(Served(path))
               /\ \A name \in TagNames :
                     Cardinality(TagsIn(GetDrvPull(path).content, name)) <= 1
               /\ \A p \in Procs :
                     (Received(p) /\ pc[p] \in {"mp_scope", "mp_exit"})
                         => GetDrvPull(path).content = loc[p].base
               /\ last.manifest = ResolveManifest(GetDrvPull(path).content, last.ref)
               /\ (Served(path).op = "manifest_put" /\ last.ref = Served(path).name)
                     => last.manifest = Served(path).manifest /\ last.result = "302"

\* a pull of a tag was answered with the previous Manifest while the put that moves the
\* tag had already made mutations in its scope
C8_Witness ==
    \E p \in Procs :
        /\ last.op = "manifest_get" /\ last.result = "302"
        /\ Received(p) /\ pc[p] \in {"mp_scope", "mp_exit"}
        /\ "add_manifest" \in loc[p].steps
        /\ last.ref = req[p].ref
        /\ last.manifest # loc[p].manifest

\* the published versions in which a tag name moved: the base held a Tag of the name on
\* another Manifest than the one pushed
Moved(path, i, old) ==
    LET v == versions[path][i]
    IN  /\ v.op = "manifest_put"
        /\ old.name = v.name
        /\ old.tagged_manifest # v.manifest
        /\ old.pk \in versions[path][v.base + 1].content

C11_State ==
    \A path \in Paths : \A i \in DOMAIN versions[path] : \A old \in tags :
        Moved(path, i, old)
            => /\ old.pk \notin versions[path][i].content
               /\ \E new \in tags :
                     /\ new.tagged_manifest = versions[path][i].manifest
                     /\ TagsIn(versions[path][i].content, versions[path][i].name) = {new}

\* C11: pushing a tag name again with a Manifest of another digest publishes a version
\* holding exactly one Tag of the name, on the new Manifest; the old Tag row stays a row
\* and is not in the new version.
C11_RetagReplaces == []C11_State /\ [][\A t \in tags : t \in tags']_vars

\* the name latest was pushed on the Manifest of one document and then on that of another
C11_Witness ==
    \E path \in Paths : \E i \in DOMAIN versions[path] : \E old \in tags :
        /\ Moved(path, i, old)
        /\ versions[path][i].name = DigestString("latest", 0)
        /\ Cardinality(manifests) = 2
        /\ old.pk \notin LatestVersion(path)
        /\ i = Len(versions[path])

\* a version-mutation scope is open in handler p
InScope(p) == pc[p] \in {"bp_add", "mp_scope", "mp_exit"}

\* C12: at no moment are two version-mutation scopes open on the same repository.
C12_ScopesExclusive ==
    \A p \in Procs, q \in Procs :
        (p # q /\ InScope(p) /\ InScope(q)) => loc[p].repository # loc[q].repository

\* C18: a whole-body append to an Upload at offset 0 succeeds and leaves the Upload
\* holding exactly the body, its offset the size of the body.
C18_WholeBodyAppend ==
    (last.op = "partial_update" /\ last.found /\ last.whole /\ last.aligned)
        => /\ last.result = "202"
           /\ last.pk \in DOMAIN uploads
           /\ uploads[last.pk].bytes = last.body
           /\ uploads[last.pk].offset = Len(last.body)

\* Pushes of manifests by one client under tags and digests, and GET and HEAD by
\* reference at any moment.
NextServe ==
    \/ ManifestPutRefAny
    \/ ManifestPutStep
    \/ ManifestGetRefAny
    \/ ManifestHeadRefAny

SpecServe == InitManifest /\ [][NextServe]_vars

\* the last response was that of a manifest GET or HEAD on a served version
Pulled == last.op \in {"manifest_get", "manifest_head"} /\ last.found

\* C13: GET and HEAD resolve a reference beginning with sha256: to the Manifest of that
\* digest in the served version, any other reference to the tagged_manifest of the Tag
\* of that name in the served version, and answer NotFound when the version holds none,
\* whatever rows exist outside it.
C13_ResolveInVersion ==
    \A path \in Paths :
        (Pulled /\ GetDrvPull(path).status = "ok")
            => LET content == GetDrvPull(path).content
                   byDigest == {m.pk : m \in {x \in manifests :
                                                x.digest = last.ref /\ x.pk \in content}}
                   byName == {t.tagged_manifest : t \in TagsIn(content, last.ref)}
                   hits == IF last.ref.prefix = "sha256:" THEN byDigest ELSE byName
               IN  /\ last.result = "Http404" <=> hits = {}
                   /\ last.result # "Http404" => hits = {last.manifest}

\* a GET or HEAD was answered NotFound while a row matching the reference exists
C13_Witness ==
    /\ Pulled /\ last.result = "Http404"
    /\ \/ \E t \in tags : t.name = last.ref
       \/ \E m \in manifests : m.digest = last.ref

\* the put of handler p succeeded under the tag latest and published the served version
PushedLatest(p) ==
    /\ Received(p) /\ pc[p] = "done" /\ loc[p].result = "201"
    /\ req[p].ref = DigestString("latest", 0)
    /\ loc[p].number = LatestNumber(loc[p].repository)

\* C14: after a manifest is pushed under latest, GET by latest and by the manifest's
\* computed digest resolve to that Manifest, and HEAD by either returns its digest as
\* Docker-Content-Digest.
C14_PushThenPull ==
    \A p \in Procs :
        (/\ PushedLatest(p) /\ Pulled
         /\ last.ref \in {req[p].ref, Sha256Digest(Sha256(req[p].body))})
            => /\ last.manifest = loc[p].manifest
               /\ last.op = "manifest_get" => last.result = "302"
               /\ last.op = "manifest_head"
                     => /\ last.result = "200"
                        /\ last.digest = Sha256Digest(Sha256(req[p].body))

\* a HEAD by the computed digest of the pushed document was answered
C14_Witness ==
    \E p \in Procs :
        /\ PushedLatest(p) /\ Pulled
        /\ last.op = "manifest_head" /\ last.result = "200"
        /\ last.ref = Sha256Digest(Sha256(req[p].body))
        /\ last.digest = last.ref

\* C15: the Manifest a put creates or reuses has the digest sha256: followed by the
\* SHA-256 of the received body, whatever the reference of the URL, and is the one
\* Manifest of that digest.
C15_DigestOfBody ==
    \A p \in Procs :
        (Received(p) /\ loc[p].manifest # 0)
            => {m.pk : m \in {x \in manifests :
                                x.digest = Sha256Digest(Sha256(req[p].body))}}
                  = {loc[p].manifest}

\* a document was pushed under the digest of another document, and its Manifest was one
\* pushed before
C15_Witness ==
    \E p \in Procs :
        /\ Received(p) /\ pc[p] = "done" /\ loc[p].result = "201"
        /\ req[p].body = <<2, 3>>
        /\ req[p].ref = Sha256Digest(Sha256(<<2>>))
        /\ "manifest" \notin {c.table : c \in created[p]}
        /\ ManifestOf(loc[p].manifest).digest = Sha256Digest(Sha256(<<2, 3>>))

\* the put of handler p is past the linking of the layers
Linked(p) ==
    /\ Received(p)
    /\ \/ pc[p] \in {"mp_tag", "mp_enter", "mp_scope", "mp_exit"}
       \/ pc[p] = "done" /\ loc[p].manifest # 0

\* C19: a put some or all of whose layer digests match no Blob succeeds; the Manifest is
\* linked to exactly the listed layer Blobs that exist.
C19_UnresolvedLayersSkipped ==
    \A p \in Procs :
        /\ (Received(p) /\ pc[p] = "done"
            /\ \E b \in blobs : b.digest = ParseManifest(req[p].body).config)
              => loc[p].result \in {"201", "ScopeError"}
        /\ Linked(p)
              => {bm.manifest_blob : bm \in {x \in blobManifests :
                                               x.manifest = loc[p].manifest}}
                    = {b.pk : b \in {x \in blobs :
                                       x.digest \in ParseManifest(req[p].body).layers}}

\* a document listing a layer that exists and one that does not was pushed
C19_Witness ==
    \E p \in Procs :
        /\ Received(p) /\ pc[p] = "done" /\ loc[p].result = "201"
        /\ req[p].body = <<2, 2, 3>>
        /\ Cardinality({bm \in blobManifests : bm.manifest = loc[p].manifest}) = 1
        /\ ~\E b \in blobs : b.digest = TokenDigest(3)

\* Concurrent pushes of blobs and of manifests, the manifests under either tag and with
\* either content type.
RecordBodies == {<<2>>, <<3>>}
RecordContentTypes ==
    ContentTypes \cup {"application/vnd.docker.distribution.manifest.v1+json"}

ManifestPutRecordAny ==
    \E p \in Procs, path \in Paths, ref \in TagNames, body \in RecordBodies,
       content_type \in RecordContentTypes :
        ManifestPutStart(p, path, ref, body, content_type)

\* the blob pushed is the payload <<1>>, under its digest
RecordDigests == {Sha256Digest(Sha256(<<1>>))}

NextRecords ==
    \/ BlobPutStartAny(Procs, RecordDigests)
    \/ BlobPutStep
    \/ ManifestPutRecordAny
    \/ ManifestPutStep

SpecRecords == InitManifest /\ [][NextRecords]_vars

\* C16: no step changes a field of a committed Artifact, Blob or Manifest, or drops the
\* row; later pushes only reference it.
C16_RecordsImmutable ==
    [][/\ \A a \in artifacts : a \in artifacts'
       /\ \A b \in blobs : b \in blobs'
       /\ \A m \in manifests : m \in manifests']_vars

\* one document was pushed twice, under two tags and with two content types, and both
\* pushes hold the one Manifest, which the second did not create
C16_Witness ==
    \E p \in Procs, q \in Procs :
        /\ Received(p) /\ Received(q)
        /\ pc[p] = "done" /\ loc[p].result = "201"
        /\ pc[q] = "done" /\ loc[q].result = "201"
        /\ req[p].body = req[q].body
        /\ req[p].ref # req[q].ref
        /\ req[p].content_type # req[q].content_type
        /\ loc[p].manifest = loc[q].manifest
        /\ "manifest" \in {c.table : c \in created[p]}
        /\ ManifestOf(loc[p].manifest).media_type = req[p].content_type

\* Concurrent upload starts on paths that have no repository yet.
CreatePaths == {"p1", "p2"}

InitCreate ==
    /\ distributions = [path \in CreatePaths |-> NoDistribution]
    /\ versions = [path \in CreatePaths |-> <<>>]
    /\ uploads = [u \in {} |-> NoUpload]
    /\ nUploads = 0
    /\ artifacts = {}
    /\ blobs = {}
    /\ manifests = {}
    /\ tags = {}
    /\ contentArtifacts = {}
    /\ blobManifests = {}
    /\ pc = [p \in Procs |-> "idle"]
    /\ req = [p \in Procs |-> NoReq]
    /\ loc = [p \in Procs |-> NoLoc]
    /\ created = [p \in Procs |-> {}]
    /\ started = 0
    /\ client = [u \in {} |-> NoClient]
    /\ last = NoLast

CreateStartAny == \E p \in Procs, path \in CreatePaths : CreateStart(p, path)
CreateStep ==
    \E p \in Procs :
        \/ CreateValidate(p)
        \/ CreateCommit(p)
        \/ CreateUpload(p)

NextCreate ==
    \/ CreateStartAny
    \/ CreateStep

SpecCreate == InitCreate /\ [][NextCreate]_vars

\* C17: upload starts that race to create the repository of a path all succeed, and
\* their Uploads belong to the one repository of the path.
C17_CreateRaceRecovered ==
    \A p \in Procs :
        (req[p].op = "create" /\ pc[p] = "done")
            => /\ loc[p].result = "202"
               /\ loc[p].repository = distributions[req[p].path].repository
               /\ \E c \in created[p] :
                     /\ c.table = "upload"
                     /\ uploads[c.pk].repository = distributions[req[p].path].repository

\* Pushes of manifests and remove requests on the repository, one request at a time;
\* a queued remove task runs at any later moment.
UnitUrls == {Star, 1, 2}
UnitLists ==
    {<<>>} \cup {<<a>> : a \in UnitUrls} \cup {<<a, b>> : a \in UnitUrls, b \in UnitUrls}

RemoveStartAny ==
    \E p \in Procs, path \in Paths, content_units \in UnitLists :
        RemoveStart(p, path, content_units)

NextRemove ==
    \/ Quiet /\ ManifestPutStartAny({1})
    \/ ManifestPutStep
    \/ RemoveStartAny
    \/ \E p \in Procs : RemoveTask(p)

SpecRemove == InitManifest /\ [][NextRemove]_vars

\* the units of the request of handler p contain "*"
HasStar(p) == \E i \in DOMAIN req[p].units : req[p].units[i] = Star

\* C20: a remove request whose content_units contains "*" results in a new version with
\* empty content.
C20_RemoveAll ==
    \A p \in Procs :
        (req[p].op = "remove" /\ HasStar(p))
            => /\ loc[p].result \in {"none", "202"}
               /\ pc[p] = "done"
                     => versions[loc[p].repository][loc[p].number + 1].content = {}

\* ------------------------------------------------------------------ a registry in use
\* A registry after some pushes and some administration: repository p1 holds the Blob of
\* <<0>> (version 1) and the Manifest of the document <<2>> under the tag latest
\* (version 2); p2 is a push repository and mirror a sync repository, both without
\* content; the path pinned serves version 2 of p1, the path unbound has a distribution
\* bound to nothing, and the path new has no distribution.  Upload 2 was started in p1
\* and holds <<1>>.
RegistryPaths == {"p1", "p2", "mirror", "pinned", "unbound", "new"}

InitRegistry ==
    /\ distributions =
          [path \in RegistryPaths |->
             IF path \in {"p1", "p2", "mirror"} THEN Distribution(path)
             ELSE IF path = "pinned" THEN VersionDistribution("p1", 2)
             ELSE IF path = "unbound" THEN [NoDistribution EXCEPT !.present = TRUE]
             ELSE NoDistribution]
    /\ versions =
          [path \in RegistryPaths |->
             IF path = "p1"
             THEN <<VersionZero,
                    [VersionZero EXCEPT !.content = {1}, !.base = 0, !.op = "blob_put"],
                    [VersionZero EXCEPT !.content = {1, 2, 3}, !.base = 1,
                                        !.op = "manifest_put", !.manifest = 2,
                                        !.name = DigestString("latest", 0)]>>
             ELSE IF path \in {"p2", "mirror"} THEN <<VersionZero>>
             ELSE <<>>]
    /\ artifacts = {[pk |-> 1, sha256 |-> Sha256(<<0>>), size |-> 1,
                     file |-> [dir |-> "upload", id |-> 1], bytes |-> <<0>>],
                    [pk |-> 2, sha256 |-> Sha256(<<2>>), size |-> 1,
                     file |-> [dir |-> "tmp", id |-> 1], bytes |-> <<2>>]}
    /\ blobs = {[pk |-> 1, digest |-> Sha256Digest(Sha256(<<0>>)),
                 media_type |-> "REGULAR_BLOB"]}
    /\ manifests = {[pk |-> 2, digest |-> Sha256Digest(Sha256(<<2>>)), schema_version |-> 2,
                     media_type |-> "application/vnd.docker.distribution.manifest.v2+json",
                     config_blob |-> 1]}
    /\ tags = {[pk |-> 3, name |-> DigestString("latest", 0), tagged_manifest |-> 2]}
    /\ contentArtifacts = {[artifact |-> 1, content |-> 1,
                            relative_path |-> Sha256Digest(Sha256(<<0>>))],
                           [artifact |-> 2, content |-> 2,
                            relative_path |-> Sha256Digest(Sha256(<<2>>))]}
    /\ blobManifests = {}
    /\ uploads = [u \in {2} |-> FilledUpload("p1", <<1>>)]
    /\ client = [u \in {1, 2} |->
                   [NoClient EXCEPT !.n = 1, !.sent = IF u = 1 THEN <<0>> ELSE <<1>>]]
    /\ nUploads = 2
    /\ pc = [p \in Procs |-> "idle"]
    /\ req = [p \in Procs |-> NoReq]
    /\ loc = [p \in Procs |-> NoLoc]
    /\ created = [p \in Procs |-> {}]
    /\ started = 0
    /\ last = NoLast

\* Requests to the management endpoints of the sync repository, and the queued add and
\* remove tasks run at any later moment.
ManageRepositories == {"mirror"}
Remotes == {"r1"}
SourceVersions == {[repository |-> "p1", number |-> 1], [repository |-> "p1", number |-> 2]}
NameFilters == {NoFilter, Filter({DigestString("latest", 0)}), Filter({DigestString("stable", 0)})}
DigestFilters == {NoFilter, Filter({Sha256Digest(Sha256(<<2>>))})}
MediaTypeFilters == {NoFilter, Filter({"application/vnd.oci.image.manifest.v1+json"})}
Containerfiles == {<<0>>, <<1>>}

SyncAny ==
    \E p \in Procs, repository \in ManageRepositories, remote \in Remotes,
       mirror \in BOOLEAN, valid \in BOOLEAN :
        Sync(p, repository, remote, mirror, valid)
TagImageAny ==
    \E p \in Procs, repository \in ManageRepositories, m \in manifests, tag \in TagNames,
       valid \in BOOLEAN :
        TagImage(p, repository, m.pk, tag, valid)
UntagImageAny ==
    \E p \in Procs, repository \in ManageRepositories, tag \in TagNames, valid \in BOOLEAN :
        UntagImage(p, repository, tag, valid)
AddStartAny ==
    \E p \in Procs, repository \in ManageRepositories, content_units \in UnitLists :
        AddStart(p, repository, content_units)
RemoveManageAny ==
    \E p \in Procs, repository \in ManageRepositories, content_units \in UnitLists :
        RemoveStart(p, repository, content_units)
CopyTagsAny ==
    \E p \in Procs, repository \in ManageRepositories, source \in SourceVersions,
       names \in NameFilters, valid \in BOOLEAN :
        CopyTags(p, repository, source, names, valid)
CopyManifestsAny ==
    \E p \in Procs, repository \in ManageRepositories, source \in SourceVersions,
       digests \in DigestFilters, media_types \in MediaTypeFilters, valid \in BOOLEAN :
        CopyManifests(p, repository, source, digests, media_types, valid)
BuildImageAny ==
    \E p \in Procs, repository \in ManageRepositories, containerfile \in Containerfiles,
       tag \in TagNames, valid \in BOOLEAN :
        BuildImage(p, repository, containerfile, tag, valid)

NextManage ==
    \/ SyncAny
    \/ TagImageAny
    \/ UntagImageAny
    \/ AddStartAny
    \/ RemoveManageAny
    \/ CopyTagsAny
    \/ CopyManifestsAny
    \/ BuildImageAny
    \/ \E p \in Procs : AddTask(p)
    \/ \E p \in Procs : RemoveTask(p)

SpecManage == InitRegistry /\ [][NextManage]_vars

ManageOps ==
    {"sync", "tag", "untag", "add", "remove", "copy_tags", "copy_manifests", "build_image"}

\* a management request that was answered 202 has queued one task, reserving its repository
C21_State ==
    \A p \in Procs :
        req[p].op \in ManageOps
            => /\ loc[p].result = "202"
                     => /\ Len(loc[p].tasks) = 1
                        /\ RepositoryResource(req[p].path) \in loc[p].tasks[1].resources
                        /\ loc[p].tasks[1].kwargs.repository_pk = req[p].path
               /\ loc[p].result # "202" => loc[p].tasks = <<>>

\* the step of a management handler leaves every version and every content row as it was
C21_Frame ==
    last'.op \in ManageOps
        => /\ versions' = versions
           /\ blobs' = blobs /\ manifests' = manifests /\ tags' = tags
           /\ blobManifests' = blobManifests

\* C21: each of sync, tag, untag, add, remove, copy_tags, copy_manifests and build_image
\* queues exactly one task whose reservation includes the target repository and returns;
\* the handler publishes no version and changes no content.
C21_OnlyEnqueues == []C21_State /\ [][C21_Frame]_vars

\* a copy_tags request queued the Tag of the source version, its task has published a
\* version holding it, and a build_image request has queued its task meanwhile
C21_Witness ==
    \E p \in Procs, q \in Procs :
        /\ req[p].op = "copy_tags" /\ pc[p] = "done" /\ loc[p].result = "202"
        /\ loc[p].tasks[1].kwargs.pks = {3}
        /\ LatestVersion("mirror") = {3}
        /\ req[q].op = "build_image" /\ pc[q] = "queued"
        /\ Cardinality(artifacts) = 3

\* Concurrent pushes of manifests to p1, and GET and HEAD through p1 and through pinned
\* at any moment.  The documents pushed are the one p1 holds and one with a layer.
FollowBodies == {<<2>>, <<2, 2>>}
FollowRefs == {DigestString("latest", 0), Sha256Digest(Sha256(<<2, 2>>))}
FollowPaths == {"p1", "pinned"}

ManifestPutFollowAny ==
    \E p \in Procs, ref \in TagNames, body \in FollowBodies, content_type \in ContentTypes :
        ManifestPutStart(p, "p1", ref, body, content_type)
ManifestGetFollowAny == \E path \in FollowPaths, ref \in FollowRefs : ManifestGet(path, ref)
ManifestHeadFollowAny == \E path \in FollowPaths, ref \in FollowRefs : ManifestHead(path, ref)

NextFollow ==
    \/ ManifestPutFollowAny
    \/ ManifestPutStep
    \/ ManifestGetFollowAny
    \/ ManifestHeadFollowAny

SpecFollow == InitRegistry /\ [][NextFollow]_vars

\* the put of handler p to p1 has succeeded
Pushed(p) ==
    /\ Received(p) /\ pc[p] = "done" /\ loc[p].result = "201"
    /\ loc[p].repository = "p1"

\* C22: a pull through a distribution bound to a repository is answered from the latest
\* version of the repository, and finds by digest the Manifest of every put that has
\* completed; a pull through a distribution bound to a version is answered from that
\* version, whatever was pushed since.
C22_PullsFollowVersions ==
    Pulled
        => /\ last.path = "p1"
                 => /\ last.manifest = ResolveManifest(LatestVersion("p1"), last.ref)
                    /\ \A p \in Procs :
                          (Pushed(p) /\ last.ref = Sha256Digest(Sha256(req[p].body)))
                              => last.manifest = loc[p].manifest
           /\ last.path = "pinned"
                 => last.manifest = IF last.ref = DigestString("latest", 0) THEN 2 ELSE 0

\* the request of handler p was a finalize or a manifest put and has succeeded
Succeeded(p) ==
    /\ req[p].op \in {"blob_put", "manifest_put"}
    /\ pc[p] = "done" /\ loc[p].result = "201"

\* the content a successful push is to leave, given the content before it
AfterPush(p, old) ==
    IF req[p].op = "blob_put" THEN old \cup {loc[p].blob}
    ELSE ((old \cup {loc[p].manifest}) \ {t.pk : t \in {x \in tags : x.name = req[p].ref}})
            \cup {t.pk : t \in {x \in tags : x.name = req[p].ref
                                             /\ x.tagged_manifest = loc[p].manifest}}

\* C23: the version a successful finalize publishes is the version before it plus the
\* Blob, that of a successful manifest put is the version before it plus the Manifest,
\* minus the Tags of the pushed name, plus the new Tag; and a Blob or Manifest of a
\* version is in every later version of the repository.
C23_PushFrame ==
    /\ \A p \in Procs :
          Succeeded(p)
              => versions[loc[p].repository][loc[p].number + 1].content
                    = AfterPush(p, versions[loc[p].repository][loc[p].number].content)
    /\ \A path \in Paths : \A i \in DOMAIN versions[path], j \in DOMAIN versions[path] :
          i < j => \A pk \in versions[path][i].content :
                      pk \in {b.pk : b \in blobs} \cup {m.pk : m \in manifests}
                          => pk \in versions[path][j].content

\* the Upload pks handed out whose Upload is no more
Deleted == {pk \in 1 .. nUploads : pk \notin DOMAIN uploads}

C24_State ==
    /\ \A p \in Procs :
          (Finalized(p) /\ loc[p].result = "201") => req[p].pk \in Deleted
    /\ (last.op = "partial_update" /\ last.pk \in Deleted) => last.result = "Http404"
    /\ \A p \in Procs :
          (req[p].op = "blob_put" /\ req[p].pk \in Deleted /\ ~Compared(p))
              => /\ pc[p] = "done"
                 /\ loc[p].result = "DoesNotExist"
                 /\ created[p] = {}

C24_Step ==
    /\ \A pk \in DOMAIN uploads :
          pk \notin DOMAIN uploads'
              => \E p \in Procs : /\ pc[p] = "bp_delete" /\ req[p].pk = pk
                                  /\ pc'[p] = "done" /\ loc'[p].result = "201"
    /\ \A pk \in Deleted :
          /\ pk \notin DOMAIN uploads'
          /\ (last'.op \in {"partial_update", "blob_put"} /\ last'.pk = pk)
                => UNCHANGED <<artifacts, blobs, contentArtifacts, versions>>

\* C24: a successful finalize deletes the Upload; every later append or finalize naming
\* it fails and creates or changes no Artifact, Blob or version; and no step other than
\* the end of a successful finalize deletes an Upload.
C24_UploadGone == []C24_State /\ [][C24_Step]_vars

\* after a finalize succeeded, a second finalize of the Upload failed and then an append
\* to it was answered NotFound
C24_Witness ==
    /\ req[1].op = "blob_put" /\ pc[1] = "done" /\ loc[1].result = "DoesNotExist"
    /\ req[1].pk \in Deleted
    /\ blobs # {}
    /\ last.op = "partial_update" /\ last.pk = req[1].pk /\ last.result = "Http404"

\* C25: the digest of every Blob is sha256: followed by the SHA-256 of the bytes of its
\* Artifact, and a finalize that succeeded was given exactly that string.
C25_BlobDigestExact ==
    /\ \A b \in blobs : \A bytes \in BlobContent(b.pk) :
          b.digest = Sha256Digest(Sha256(bytes))
    /\ \A p \in Procs :
          (Finalized(p) /\ loc[p].result = "201")
              => req[p].digest = Sha256Digest(Sha256(loc[p].upload.bytes))

\* Pushes of manifests to the two push repositories, one after the other.
SharePaths == {"p1", "p2"}

ManifestPutShareAny ==
    \E path \in SharePaths, ref \in TagNames, body \in FollowBodies,
       content_type \in ContentTypes :
        ManifestPutStart(1, path, ref, body, content_type)

NextShare ==
    \/ Quiet /\ ManifestPutShareAny
    \/ ManifestPutStep

SpecShare == InitRegistry /\ [][NextShare]_vars

\* C26: in every version of a push repository, the config Blob of every Manifest of the
\* content is in the content.
C26_ConfigInVersion ==
    \A path \in SharePaths : \A i \in DOMAIN versions[path] : \A m \in manifests :
        m.pk \in versions[path][i].content => m.config_blob \in versions[path][i].content

\* C27: in every published version, every Tag of the content points to a Manifest of the
\* content, which a lookup by digest in that version finds.
C27_TagsPointInside ==
    \A path \in Paths : \A i \in DOMAIN versions[path] : \A t \in tags :
        t.pk \in versions[path][i].content
            => /\ t.tagged_manifest \in versions[path][i].content
               /\ ResolveManifest(versions[path][i].content,
                                  ManifestOf(t.tagged_manifest).digest) = t.tagged_manifest

\* two puts have published versions, and the latest holds two Tags on two Manifests
C27_Witness ==
    \E path \in Paths : \E t \in tags, u \in tags :
        /\ t.pk \in LatestVersion(path) /\ u.pk \in LatestVersion(path)
        /\ t.name # u.name
        /\ t.tagged_manifest # u.tagged_manifest
        /\ \A p \in Procs : Received(p) /\ pc[p] = "done" /\ loc[p].result = "201"

\* the put of handler p succeeded and published the latest version of its repository
PushedLast(p) ==
    /\ Received(p) /\ pc[p] = "done" /\ loc[p].result = "201"
    /\ loc[p].number = LatestNumber(loc[p].repository)

\* C28: after a manifest put under a reference has succeeded and before another push, GET
\* and HEAD of that reference resolve to the pushed Manifest, whether the reference is a
\* tag name or begins with sha256:.
C28_PullByPushedReference ==
    \A p \in Procs :
        (PushedLast(p) /\ Pulled /\ last.ref = req[p].ref)
            => /\ last.manifest = loc[p].manifest
               /\ last.result = IF last.op = "manifest_get" THEN "302" ELSE "200"

\* ------------------------------------------------------------------ push routing
\* One push request at a time, to any path of the registry: upload starts, appends,
\* finalizes and manifest puts through paths of push repositories, of the sync
\* repository, of a distribution without repository and of no distribution.
RoutePaths == {"p1", "p2", "mirror", "unbound", "new"}
RouteChunks == {<<0>>}
RouteDigests == {Sha256Digest(Sha256(<<1>>))}
\* the paths an upload is started on: none of them serves a push repository yet
RouteCreatePaths == {"mirror", "new"}
\* the declared start offsets: the offset of a new Upload and of the filled one
RouteOffsets == {0, 1}
RouteBodies == {<<2>>}

CreateRouteAny == \E path \in RouteCreatePaths : Create(path)
PartialUpdateRouteAny ==
    \E path \in RoutePaths, pk \in KnownPks, mode \in {"range"},
       start \in RouteOffsets, chunk \in RouteChunks :
        /\ PartialUpdate(path, pk, mode, start, start + Len(chunk) - 1, chunk)
BlobPutRouteAny ==
    \E path \in RoutePaths, pk \in KnownPks, digest \in RouteDigests :
        BlobPutStart(1, path, pk, digest)
ManifestPutRouteAny ==
    \E path \in RoutePaths, ref \in {DigestString("stable", 0)}, body \in RouteBodies,
       content_type \in ContentTypes :
        ManifestPutStart(1, path, ref, body, content_type)

NextRoute ==
    \/ Quiet /\ CreateRouteAny
    \/ Quiet /\ PartialUpdateRouteAny
    \/ Quiet /\ BlobPutRouteAny
    \/ BlobPutStep
    \/ Quiet /\ ManifestPutRouteAny
    \/ ManifestPutStep

SpecRoute == InitRegistry /\ [][NextRoute]_vars

\* a step that is an append through the path
IsAppend(path) == last'.op = "partial_update" /\ last'.path = path
\* a step that is an upload start through the path
IsCreate(path) == last'.op = "create" /\ last'.path = path
\* a step in which handler p receives a finalize or a manifest put through the path
IsStart(p, op, path) ==
    /\ Idle(p)
    /\ started' = started + 1
    /\ req'[p].op = op
    /\ req'[p].path = path
\* handler p has answered with the error and will take no further step
Refused(p, results) == pc'[p] = "done" /\ loc'[p].result \in results

\* the path serves a repository, and the Upload belongs to another one
Foreign(path, pk) ==
    /\ distributions[path].present
    /\ distributions[path].repository # "none"
    /\ pk \in DOMAIN uploads
    /\ uploads[pk].repository # distributions[path].repository

C29_Step ==
    \A path \in RegistryPaths, pk \in UploadPks :
        Foreign(path, pk) =>
            /\ (IsAppend(path) /\ last'.pk = pk)
                   => /\ last'.result \in {"Http404", "MethodNotAllowed"}
                      /\ UNCHANGED db
            /\ \A p \in Procs :
                  (IsStart(p, "blob_put", path) /\ req'[p].pk = pk)
                     => /\ Refused(p, {"DoesNotExist", "MethodNotAllowed"})
                        /\ UNCHANGED db

\* C29: an append or a finalize that names an Upload through the path of a repository
\* other than the one the Upload was started in fails, and leaves the Upload and the
\* content of every repository as they were.
C29_OwnRepositoryOnly == [][C29_Step]_vars

\* Upload 2 of repository p1 was named by a finalize and then by an append through
\* the path of p2; both failed and the Upload is still there
C29_Witness ==
    /\ 2 \in DOMAIN uploads
    /\ uploads[2].repository = "p1"
    /\ pc[1] = "done" /\ req[1].op = "blob_put" /\ req[1].path = "p2" /\ req[1].pk = 2
    /\ loc[1].result = "DoesNotExist"
    /\ last.op = "partial_update" /\ last.path = "p2" /\ last.pk = 2
    /\ last.result = "Http404"

\* the path has a distribution whose repository is not push-enabled
ReadOnly(path) ==
    /\ distributions[path].present
    /\ distributions[path].repository # "none"
    /\ ~PushEnabled(distributions[path].repository)
\* the path has no distribution, or a distribution without repository
Missing(path) == ~distributions[path].present \/ distributions[path].repository = "none"

C30_ReadOnly ==
    \A path \in RegistryPaths :
        ReadOnly(path) =>
            /\ (IsCreate(path) \/ IsAppend(path))
                   => last'.result = "MethodNotAllowed" /\ UNCHANGED db
            /\ \A p \in Procs, op \in {"blob_put", "manifest_put"} :
                  IsStart(p, op, path) => Refused(p, {"MethodNotAllowed"}) /\ UNCHANGED db

C30_Missing ==
    \A path \in RegistryPaths :
        Missing(path) =>
            /\ IsAppend(path) => last'.result = "Http404" /\ UNCHANGED db
            /\ \A p \in Procs, op \in {"blob_put", "manifest_put"} :
                  IsStart(p, op, path) => Refused(p, {"Http404"}) /\ UNCHANGED db

C30_OnlyCreate ==
    (\/ distributions' # distributions
     \/ \E repository \in RegistryPaths :
           versions[repository] = <<>> /\ versions'[repository] # <<>>)
        => \E path \in RegistryPaths :
             /\ IsCreate(path)
             /\ ~distributions[path].present
             /\ distributions' = [distributions EXCEPT ![path] = Distribution(path)]

\* C30: every push operation through a path whose repository is not push-enabled is
\* answered MethodNotAllowed; an append, a finalize or a manifest put through a path
\* without distribution or without repository is answered NotFound; none of these
\* creates an Upload, a content record or a repository version; and a repository and
\* a distribution come into being only by an upload start.
C30_PushRouting == [][C30_ReadOnly /\ C30_Missing /\ C30_OnlyCreate]_vars

\* an upload start has created the repository and distribution new, a manifest put
\* through the path without repository was answered NotFound, and an append through
\* the read-only path was answered MethodNotAllowed
C30_Witness ==
    /\ distributions["new"] = Distribution("new")
    /\ versions["new"] # <<>>
    /\ pc[1] = "done" /\ req[1].op = "manifest_put" /\ req[1].path = "unbound"
    /\ loc[1].result = "Http404"
    /\ last.op = "partial_update" /\ last.path = "mirror"
    /\ last.result = "MethodNotAllowed"

\* ------------------------------------------------------------------ the "*" sentinel
\* C31: a remove request whose content_units contains "*" queues the task with exactly
\* the remove set ["*"], wherever "*" stands in the list, and resolves no entry of the
\* request as a content reference.
C31_StarBeforeLookup ==
    \A p \in Procs :
        (req[p].op = "remove" /\ HasStar(p))
            => /\ loc[p].result = "202"
               /\ Len(loc[p].tasks) = 1
               /\ loc[p].tasks[1].func = "recursive_remove_content"
               /\ loc[p].tasks[1].kwargs.content_units = <<Star>>
               /\ RemoveLookups(req[p].units) = 0

\* ------------------------------------------------------------------ appends without a range
C32_Step ==
    (last'.op = "partial_update" /\ last'.found /\ last'.mode = "norange")
        => /\ last'.aligned = (uploads[last'.pk].offset = 0)
           /\ IF uploads[last'.pk].offset = 0
              THEN last'.result = "202"
              ELSE last'.result = "OffsetMismatch" /\ UNCHANGED db

====
